---- MODULE Spec2Model ----
(***************************************************************************)
(* A model of the lazy-load graph of cosdata: the lazy cells and           *)
(* collections of src/models/lazy_load.rs, the MergedNode primitives of    *)
(* src/models/types.rs and the chunked binary format of                    *)
(* src/models/serializer/lazy_item_map.rs, with the node registry and the  *)
(* node/cell serializers that the tests of src/models/serializer/tests.rs  *)
(* exercise.                                                               *)
(* The store of src/api_service.rs (init_vector_store, run_upload) is      *)
(* modelled with its version files and its key-value tables.               *)
(*                                                                         *)
(* A u32 is kept as its two's complement bit pattern: 0 .. 2^31-1 stand    *)
(* for themselves and a negative x stands for x + 2^32, so u32::MAX is -1  *)
(* and "the MSB is set" is x < 0.  Files are sequences of bytes.           *)
(***************************************************************************)
EXTENDS Integers, Sequences, FiniteSets, TLC

(***************************************************************************)
(* Bounds of the model.                                                    *)
(***************************************************************************)
MaxStrLen == 2
MaxPad == 2
MaxNodes == 3
MaxBudget == 3
MaxLoadCalls == 2
MaxNbrs == 2
MaxVersions == 2
MaxEntries == 12
MaxCells == 3
MaxOffsetCells == 4
MaxInserts == 3
MaxThreads == 4
MaxWrites == 3
MaxOwners == 2
MaxUploads == 2
MaxBatch == 2
MaxThreshold == 3
MaxLevels == 3
MaxDamagedEntries == 6
OutOfFile == 1000
MaxEdgeEntries == 2
EdgeGap == 30
MaxEnvCalls == 4

(***************************************************************************)
(* Program constants.                                                      *)
(***************************************************************************)
CHUNK_SIZE == 5
U32MAX == -1
MSB == (-2147483647) - 1

Max(a, b) == IF a >= b THEN a ELSE b
Min(a, b) == IF a <= b THEN a ELSE b

(***************************************************************************)
(* u32 <-> four little-endian bytes.                                       *)
(***************************************************************************)
Low31(x) == IF x >= 0 THEN x ELSE (x + 2147483647) + 1

OrMSB(x) == IF x < 0 THEN x ELSE (x - 2147483647) - 1

IsMSBSet(x) == x < 0

U32Bytes(x) ==
  LET l == Low31(x)
  IN  << l % 256, (l \div 256) % 256, (l \div 65536) % 256,
         (l \div 16777216) + (IF x < 0 THEN 128 ELSE 0) >>

U32FromBytes(b) ==
  LET l == b[1] + 256 * b[2] + 65536 * b[3] + 16777216 * (b[4] % 128)
  IN  IF b[4] >= 128 THEN (l - 2147483647) - 1 ELSE l

U16Bytes(x) == << x % 256, (x \div 256) % 256 >>

U16FromBytes(b) == b[1] + 256 * b[2]

(***************************************************************************)
(* The writer: a seekable buffer, [buf |-> bytes, pos |-> 0-based          *)
(* position].  A write overwrites from pos on and extends the buffer,      *)
(* filling a gap left by a seek past the end with zeros.                   *)
(***************************************************************************)
NewWriter == [buf |-> << >>, pos |-> 0]

WriteBytes(w, bs) ==
  LET n == Max(Len(w.buf), w.pos + Len(bs))
  IN  [buf |-> [i \in 1 .. n |->
                  IF i > w.pos /\ i <= w.pos + Len(bs) THEN bs[i - w.pos]
                  ELSE IF i <= Len(w.buf) THEN w.buf[i] ELSE 0],
       pos |-> w.pos + Len(bs)]

WriteU32(w, x) == WriteBytes(w, U32Bytes(x))

WriteU16(w, x) == WriteBytes(w, U16Bytes(x))

WriteU8(w, x) == WriteBytes(w, << x >>)

SeekW(w, p) == [w EXCEPT !.pos = p]

(***************************************************************************)
(* The reader: a position in the file.  A position is a natural, or -1 for *)
(* a position at or beyond 2^31, which no modelled file reaches.           *)
(***************************************************************************)
PosOf(off) == IF off < 0 THEN -1 ELSE off

PosAdd(p, k) == IF p < 0 THEN -1 ELSE p + k

CanRead(file, p, n) == p >= 0 /\ p <= Len(file) /\ n <= Len(file) - p

BytesAt(file, p, n) == [i \in 1 .. n |-> file[p + i]]

ReadU32(file, p) ==
  IF CanRead(file, p, 4)
  THEN [ok |-> TRUE, val |-> U32FromBytes(BytesAt(file, p, 4)), pos |-> p + 4]
  ELSE [ok |-> FALSE, val |-> 0, pos |-> p]

ReadU16(file, p) ==
  IF CanRead(file, p, 2)
  THEN [ok |-> TRUE, val |-> U16FromBytes(BytesAt(file, p, 2)), pos |-> p + 2]
  ELSE [ok |-> FALSE, val |-> 0, pos |-> p]

ReadU8(file, p) ==
  IF CanRead(file, p, 1)
  THEN [ok |-> TRUE, val |-> file[p + 1], pos |-> p + 1]
  ELSE [ok |-> FALSE, val |-> 0, pos |-> p]

(***************************************************************************)
(* String::from_utf8: whether a byte sequence is well-formed UTF-8.        *)
(***************************************************************************)
IsCont(b) == b >= 128 /\ b <= 191

RECURSIVE Utf8From(_, _)
Utf8From(bs, i) ==
  IF i > Len(bs) THEN TRUE
  ELSE LET b == bs[i]
           has(k) == i + k <= Len(bs)
       IN  IF b <= 127 THEN Utf8From(bs, i + 1)
           ELSE IF b >= 194 /\ b <= 223
             THEN has(1) /\ IsCont(bs[i + 1]) /\ Utf8From(bs, i + 2)
           ELSE IF b >= 224 /\ b <= 239
             THEN /\ has(2)
                  /\ IsCont(bs[i + 1]) /\ IsCont(bs[i + 2])
                  /\ (b = 224 => bs[i + 1] >= 160)
                  /\ (b = 237 => bs[i + 1] <= 159)
                  /\ Utf8From(bs, i + 3)
           ELSE IF b >= 240 /\ b <= 244
             THEN /\ has(3)
                  /\ IsCont(bs[i + 1]) /\ IsCont(bs[i + 2]) /\ IsCont(bs[i + 3])
                  /\ (b = 240 => bs[i + 1] >= 144)
                  /\ (b = 244 => bs[i + 1] <= 143)
                  /\ Utf8From(bs, i + 4)
           ELSE FALSE

IsUtf8(bs) == Utf8From(bs, 1)

(***************************************************************************)
(* IdentityMapKey: Int(u32) or String(bytes).                              *)
(***************************************************************************)
KeyInt(n) == [tag |-> "Int", int |-> n, str |-> << >>]

KeyString(s) == [tag |-> "String", int |-> 0, str |-> s]

(* IdentityMapKey::serialize: the writer after the call and the offset     *)
(* returned.                                                               *)
KeySerialize(w, key) ==
  [w   |-> IF key.tag = "String"
           THEN WriteBytes(WriteU32(w, OrMSB(Len(key.str))), key.str)
           ELSE WriteU32(w, key.int),
   off |-> w.pos]

(* IdentityMapKey::deserialize: ok, the key, the reader's position after   *)
(* the call, and the error kind when not ok.                               *)
KeyFail(p, e) == [ok |-> FALSE, key |-> KeyInt(0), pos |-> p, err |-> e]

(* A key that would take any bytes for a string. *)
KeyDeserializeStringUnchecked(file, p, len) ==
  IF ~CanRead(file, p, len) THEN KeyFail(p, "UnexpectedEof")
  ELSE [ok |-> TRUE, key |-> KeyString(BytesAt(file, p, len)),
        pos |-> p + len, err |-> ""]

(* lines 159-171: the string of len bytes at p *)
KeyDeserializeString(file, p, len) ==
  IF ~CanRead(file, p, len) THEN KeyFail(p, "UnexpectedEof")
  ELSE IF ~IsUtf8(BytesAt(file, p, len)) THEN KeyFail(p + len, "InvalidData")
  ELSE [ok |-> TRUE, key |-> KeyString(BytesAt(file, p, len)),
        pos |-> p + len, err |-> ""]

(* lines 154-157: r is the u32 read at the offset *)
KeyDeserializeNum(file, r) ==
  IF ~r.ok THEN KeyFail(r.pos, "UnexpectedEof")
  ELSE IF ~IsMSBSet(r.val)
  THEN [ok |-> TRUE, key |-> KeyInt(r.val), pos |-> r.pos, err |-> ""]
  ELSE KeyDeserializeString(file, r.pos, Low31(r.val))

KeyDeserialize(file, offset) == KeyDeserializeNum(file, ReadU32(file, PosOf(offset)))

(***************************************************************************)
(* The heap.  nodes[n] is the MergedNode behind the shared handle n        *)
(* (an Item<MergedNode>); all clones of a MergedNode share its cells, so   *)
(* one record stands for them all.  cells[c] is the shared offset cell     *)
(* (Item<Option<FileOffset>>) of the lazy items that were cloned from one  *)
(* another: << >> is None and << o >> is Some(o).                          *)
(* A LazyItem is Invalid or Valid {data, offset}: data is a node handle or *)
(* 0 for None, cell is its offset cell.                                    *)
(***************************************************************************)
None == << >>

Some(x) == << x >>

Invalid == [valid |-> FALSE, data |-> 0, cell |-> 0]

Valid(d, c) == [valid |-> TRUE, data |-> d, cell |-> c]

PropPending(loc) == [tag |-> "Pending", vid |-> 0, loc |-> Some(loc)]

PropReady(vid, loc) == [tag |-> "Ready", vid |-> vid, loc |-> loc]

(* MergedNode::new *)
NewMergedNode(v, l) ==
  [version_id |-> v, hnsw_level |-> l, prop |-> PropPending(<<0, 0>>),
   neighbors |-> << >>, parent |-> Invalid, child |-> Invalid,
   versions |-> << >>, persist_flag |-> TRUE]

(* LazyItem::is_valid, is_invalid, get_data, get_offset *)
IsValid(lz) == lz.valid

IsInvalid(lz) == ~lz.valid

GetData(lz) == IF lz.valid THEN lz.data ELSE 0

GetOffset(cs, lz) == IF lz.valid THEN cs[lz.cell] ELSE None

(* LazyItem::set_offset: the offset cells after the call. *)
SetOffset(cs, lz, o) == IF lz.valid THEN [cs EXCEPT ![lz.cell] = o] ELSE cs

(* derive(Hash) for PropState and Hash for NodeProp: what the hasher is    *)
(* fed, taken for the 64-bit hash itself.                                  *)
HashProp(p) ==
  IF p.tag = "Ready" THEN <<"Ready", p.vid, 0, 0>>
  ELSE <<"Pending", 0, p.loc[1][1], p.loc[1][2]>>

(* Identifiable for MergedNode *)
NodeGetId(ns, n) == HashProp(ns[n].prop)

(* Identifiable for LazyItem *)
LazyGetId(ns, cs, lz) ==
  IF lz.valid /\ cs[lz.cell] # None THEN <<"Persist", cs[lz.cell][1]>>
  ELSE IF lz.valid /\ lz.data # 0 THEN <<"Memory", NodeGetId(ns, lz.data)>>
  ELSE <<"Persist", U32MAX>>

(***************************************************************************)
(* Serialization.  A serializer takes the heap ns and                      *)
(* st = [w, cells, ok, count] (the writer, the offset cells, whether every *)
(* call so far returned Ok, and the node records begun so far) and yields  *)
(* [st, off]: the state after the call and the offset returned.  After an  *)
(* Err nothing more is written.  Each serializer is split at its calls,    *)
(* the result of a call being the last parameter of the part that          *)
(* continues after it.  A cell is written at most once, so a call that     *)
(* begins more records than there are cells, and one for the root, is on a *)
(* path that never ends: it is cut there, with count left above the cells. *)
(***************************************************************************)
RECURSIVE SerLazy(_, _, _), SerNode(_, _, _), SerNodeLinks(_, _, _, _),
          SerNodeChild(_, _, _, _, _), SerNodeNeighbors(_, _, _, _, _, _),
          SerNodeVersions(_, _, _, _, _, _, _),
          SerMapItems(_, _, _, _, _, _, _), SerMapItemKey(_, _, _, _, _, _, _, _),
          SerMapItemValue(_, _, _, _, _, _, _, _, _),
          SerMapChunks(_, _, _, _), SerMapChunkBody(_, _, _, _, _),
          SerMapChunkEnd(_, _, _, _, _), SerMap(_, _, _),
          SerEagerItems(_, _, _, _, _, _, _), SerEagerItemValue(_, _, _, _, _, _, _, _, _),
          SerEagerChunks(_, _, _, _), SerEagerChunkBody(_, _, _, _, _),
          SerEagerChunkEnd(_, _, _, _, _), SerEagerSet(_, _, _)

SerErr(st) == [st |-> [st EXCEPT !.ok = FALSE], off |-> U32MAX]

(* Write n placeholders u32::MAX. *)
RECURSIVE WritePlaceholders(_, _)
WritePlaceholders(w, n) ==
  IF n = 0 THEN w ELSE WritePlaceholders(WriteU32(w, U32MAX), n - 1)

(* A patch that would leave the placeholder as it is. *)
PatchNothing(w, p, x) == w

(* Seek to p, write x, seek back to where the writer was. *)
Patch(w, p, x) == SeekW(WriteU32(SeekW(w, p), x), w.pos)

(* LazyItem::serialize were it to descend into the node before the cell    *)
(* has taken its offset.                                                   *)
SerLazyUnmarked(ns, st, lz) ==
  IF ~st.ok THEN [st |-> st, off |-> U32MAX]
  ELSE IF ~lz.valid THEN [st |-> st, off |-> U32MAX]
  ELSE IF st.cells[lz.cell] # None THEN [st |-> st, off |-> st.cells[lz.cell][1]]
  ELSE IF lz.data # 0 THEN SerNode(ns, st, lz.data)
  ELSE SerErr(st)

(* LazyItem::serialize.  Invalid gives u32::MAX; a cell that has an offset *)
(* gives that offset and is not descended into; otherwise the cell takes   *)
(* the writer's position as its offset before its node is written there.   *)
SerLazy(ns, st, lz) ==
  IF ~st.ok THEN [st |-> st, off |-> U32MAX]
  ELSE IF ~lz.valid THEN [st |-> st, off |-> U32MAX]
  ELSE IF st.cells[lz.cell] # None THEN [st |-> st, off |-> st.cells[lz.cell][1]]
  ELSE IF lz.data # 0
    THEN SerNode(ns, [st EXCEPT !.cells[lz.cell] = Some(st.w.pos)], lz.data)
  ELSE SerErr(st)

(* The prop_offset and prop_length fields of a node record. *)
PropLocation(p) == IF p.loc = None THEN <<U32MAX, 0>> ELSE p.loc[1]

(* version_id, hnsw_level, prop_offset, prop_length *)
WriteNodeHeader(w, node) ==
  WriteU32(WriteU32(WriteU8(WriteU16(w, node.version_id), node.hnsw_level),
                    PropLocation(node.prop)[1]), PropLocation(node.prop)[2])

(* MergedNode::serialize: the fixed-size record with four placeholders,    *)
(* then parent, child, neighbors and versions, each patched into its slot. *)
SerNode(ns, st, n) ==
  IF ~st.ok THEN [st |-> st, off |-> U32MAX]
  ELSE IF st.count > Len(st.cells)
    THEN SerErr([st EXCEPT !.count = @ + 1])
  ELSE SerNodeLinks(ns, [st EXCEPT !.count = @ + 1], n,
                    WriteNodeHeader(st.w, ns[n]))

(* w1: the writer after the header; its position is that of the slots. *)
SerNodeLinks(ns, st, n, w1) ==
  SerNodeChild(ns, n, st.w.pos, w1.pos,
    SerLazy(ns, [st EXCEPT !.w = WritePlaceholders(w1, 4)], ns[n].parent))

SerNodeChild(ns, n, start, slots, rp) ==
  SerNodeNeighbors(ns, n, start, slots, rp.off, SerLazy(ns, rp.st, ns[n].child))

SerNodeNeighbors(ns, n, start, slots, po, rc) ==
  SerNodeVersions(ns, n, start, slots, po, rc.off,
    SerEagerSet(ns, rc.st, ns[n].neighbors))

SerNodePatch(start, slots, po, co, no, rv) ==
  IF ~rv.st.ok THEN [st |-> rv.st, off |-> U32MAX]
  ELSE [st  |-> [rv.st EXCEPT !.w =
                   Patch(Patch(Patch(Patch(@, slots, po), slots + 4, co),
                               slots + 8, no), slots + 12, rv.off)],
        off |-> start]

SerNodeVersions(ns, n, start, slots, po, co, rn) ==
  SerNodePatch(start, slots, po, co, rn.off, SerMap(ns, rn.st, ns[n].versions))

(* LazyItemMap::serialize, lines 51-64: the entries i .. ce-1 of the chunk *)
(* that starts at entry cs and whose slots start at ph.                    *)
SerMapItems(ns, st, items, i, cs, ce, ph) ==
  IF i >= ce \/ ~st.ok THEN st
  ELSE SerMapItemKey(ns, st, items, i, cs, ce, ph,
                     KeySerialize(st.w, items[i + 1].key))

(* lines 53-55: k is what the key's serialize gave *)
SerMapItemKey(ns, st, items, i, cs, ce, ph, k) ==
  SerMapItemValue(ns, items, i, cs, ce, ph, k.off, k.w.pos,
    SerLazy(ns, [st EXCEPT !.w = WriteU32(k.w, 0)], items[i + 1].item))

(* Lines 56-63 were the entry's slot left as the placeholder. *)
SerMapItemValueUnpatched(ns, items, i, cs, ce, ph, eoff, ipp, r) ==
  IF ~r.st.ok THEN r.st
  ELSE SerMapItems(ns,
         [r.st EXCEPT !.cells = SetOffset(@, items[i + 1].item, Some(r.off)),
                      !.w = Patch(@, ipp, r.off)],
         items, i + 1, cs, ce, ph)

(* Lines 56-63 were the item offset after the key left as the 0 of line   *)
(* 55.                                                                     *)
SerMapItemValueNoItemOffset(ns, items, i, cs, ce, ph, eoff, ipp, r) ==
  IF ~r.st.ok THEN r.st
  ELSE SerMapItems(ns,
         [r.st EXCEPT !.cells = SetOffset(@, items[i + 1].item, Some(r.off)),
                      !.w = Patch(@, ph + (i - cs) * 4, eoff)],
         items, i + 1, cs, ce, ph)

(* lines 56-63: r is what the item's serialize gave *)
SerMapItemValue(ns, items, i, cs, ce, ph, eoff, ipp, r) ==
  IF ~r.st.ok THEN r.st
  ELSE SerMapItems(ns,
         [r.st EXCEPT !.cells = SetOffset(@, items[i + 1].item, Some(r.off)),
                      !.w = Patch(Patch(@, ph + (i - cs) * 4, eoff), ipp, r.off)],
         items, i + 1, cs, ce, ph)

(* LazyItemMap::serialize, lines 37-75: the chunks from entry cs on. *)
SerMapChunks(ns, st, items, cs) ==
  IF cs >= Len(items) \/ ~st.ok THEN st
  ELSE SerMapChunkBody(ns, st, items, cs, WritePlaceholders(st.w, CHUNK_SIZE))

(* lines 47-64: w1 is the writer after the entry placeholders *)
SerMapChunkBody(ns, st, items, cs, w1) ==
  SerMapChunkEnd(ns, items, cs, w1.pos,
    SerMapItems(ns, [st EXCEPT !.w = WriteU32(w1, U32MAX)], items, cs, cs,
                Min(cs + CHUNK_SIZE, Len(items)), st.w.pos))

(* Lines 67-74 were the link never patched. *)
SerMapChunkEndUnlinked(ns, items, cs, ncp, st2) ==
  IF ~st2.ok THEN st2 ELSE SerMapChunks(ns, st2, items, cs + CHUNK_SIZE)

(* lines 67-74: the link at ncp is patched once the entries are written *)
SerMapChunkEnd(ns, items, cs, ncp, st2) ==
  IF ~st2.ok THEN st2
  ELSE SerMapChunks(ns,
         [st2 EXCEPT !.w = Patch(@, ncp, IF Min(cs + CHUNK_SIZE, Len(items)) = Len(items)
                                         THEN U32MAX ELSE st2.w.pos)],
         items, cs + CHUNK_SIZE)

(* LazyItemMap::serialize without lines 25-27. *)
SerMapOfAny(ns, st, items) ==
  [st |-> SerMapChunkBody(ns, st, items, 0, WritePlaceholders(st.w, CHUNK_SIZE)),
   off |-> st.w.pos]

(* LazyItemMap::serialize *)
SerMap(ns, st, items) ==
  IF items = << >> THEN [st |-> st, off |-> U32MAX]
  ELSE [st |-> SerMapChunks(ns, st, items, 0), off |-> st.w.pos]

(* EagerLazyItemSet::serialize: the same chunks; an entry is the eager     *)
(* payload (the f32's four bytes) followed by the item's offset.           *)
SerEagerItems(ns, st, items, i, cs, ce, ph) ==
  IF i >= ce \/ ~st.ok THEN st
  ELSE SerEagerItemValue(ns, items, i, cs, ce, ph, st.w.pos, st.w.pos + 4,
         SerLazy(ns, [st EXCEPT !.w = WriteU32(WriteU32(st.w, items[i + 1].eager), 0)],
                 items[i + 1].item))

SerEagerItemValue(ns, items, i, cs, ce, ph, eoff, ipp, r) ==
  IF ~r.st.ok THEN r.st
  ELSE SerEagerItems(ns,
         [r.st EXCEPT !.w = Patch(Patch(@, ph + (i - cs) * 4, eoff), ipp, r.off)],
         items, i + 1, cs, ce, ph)

SerEagerChunks(ns, st, items, cs) ==
  IF cs >= Len(items) \/ ~st.ok THEN st
  ELSE SerEagerChunkBody(ns, st, items, cs, WritePlaceholders(st.w, CHUNK_SIZE))

SerEagerChunkBody(ns, st, items, cs, w1) ==
  SerEagerChunkEnd(ns, items, cs, w1.pos,
    SerEagerItems(ns, [st EXCEPT !.w = WriteU32(w1, U32MAX)], items, cs, cs,
                  Min(cs + CHUNK_SIZE, Len(items)), st.w.pos))

SerEagerChunkEnd(ns, items, cs, ncp, st2) ==
  IF ~st2.ok THEN st2
  ELSE SerEagerChunks(ns,
         [st2 EXCEPT !.w = Patch(@, ncp, IF Min(cs + CHUNK_SIZE, Len(items)) = Len(items)
                                         THEN U32MAX ELSE st2.w.pos)],
         items, cs + CHUNK_SIZE)

SerEagerSet(ns, st, items) ==
  IF items = << >> THEN [st |-> st, off |-> U32MAX]
  ELSE [st |-> SerEagerChunks(ns, st, items, 0), off |-> st.w.pos]

(***************************************************************************)
(* Identity collections, in insertion order.  An entry of a set carries    *)
(* the identity its item had when it was inserted; an item whose identity  *)
(* is already in the set is not inserted.  An entry of a map is a key and  *)
(* an item; inserting under a key that is present replaces the item.       *)
(***************************************************************************)
HasId(items, id) == \E i \in 1 .. Len(items) : items[i].id = id

SetInsert(items, e) == IF HasId(items, e.id) THEN items ELSE Append(items, e)

HasKey(items, key) == \E i \in 1 .. Len(items) : items[i].key = key

MapInsert(items, e) ==
  IF HasKey(items, e.key)
  THEN [i \in 1 .. Len(items) |-> IF items[i].key = e.key THEN e ELSE items[i]]
  ELSE Append(items, e)

RECURSIVE MapFromIterFrom(_, _, _)
MapFromIterFrom(raw, i, acc) ==
  IF i > Len(raw) THEN acc ELSE MapFromIterFrom(raw, i + 1, MapInsert(acc, raw[i]))

MapFromIter(raw) == MapFromIterFrom(raw, 1, << >>)

RECURSIVE SetFromIterFrom(_, _, _, _, _)
SetFromIterFrom(ns, cs, raw, i, acc) ==
  IF i > Len(raw) THEN acc
  ELSE SetFromIterFrom(ns, cs, raw, i + 1,
         SetInsert(acc, [id |-> LazyGetId(ns, cs, raw[i].item),
                         eager |-> raw[i].eager, item |-> raw[i].item]))

SetFromIter(ns, cs, raw) == SetFromIterFrom(ns, cs, raw, 1, << >>)

(***************************************************************************)
(* Deserialization.  ds is the state a load works on:                      *)
(*   nodes, cells   the heap, which a load extends                         *)
(*   reg            the registry: offset -> the lazy item registered       *)
(*   skipm          the skip set of the load_item call in progress         *)
(*   ok, err        whether every call so far returned Ok, else the error  *)
(*   depth          the node materializations in progress                  *)
(*   maxDepth       the largest depth the load_item call has reached       *)
(*   count          the node records the load_item call has begun to read  *)
(* max_loads is the parameter ml.  A deserializer is split at its calls    *)
(* like a serializer.  "Diverges" is not an error the code returns: it     *)
(* marks a loop that never ends.  A load reads a record at an offset once, *)
(* and once more for the record load_item was called on, so a load that    *)
(* begins more records than the file has bytes is cut as diverging.        *)
(***************************************************************************)
RECURSIVE GetObject(_, _, _, _), DesLazy(_, _, _, _), DesNode(_, _, _, _),
          DesNodeChild(_, _, _, _), DesNodeNeighbors(_, _, _, _, _),
          DesNodeVersions(_, _, _, _, _, _),
          DesMap(_, _, _, _), DesMapChunks(_, _, _, _, _),
          DesMapChunkLink(_, _, _, _, _), DesMapChunkNext(_, _, _, _, _, _),
          DesMapSlots(_, _, _, _, _), DesMapSlotEntry(_, _, _, _, _, _),
          DesMapSlotKey(_, _, _, _, _, _), DesMapSlotItem(_, _, _, _, _, _, _),
          DesMapSlotPush(_, _, _, _, _, _, _),
          DesEagerSet(_, _, _, _), DesEagerChunks(_, _, _, _, _),
          DesEagerChunkLink(_, _, _, _, _), DesEagerChunkNext(_, _, _, _, _, _),
          DesEagerSlots(_, _, _, _, _), DesEagerSlotEntry(_, _, _, _, _, _),
          DesEagerSlotEager(_, _, _, _, _, _), DesEagerSlotItem(_, _, _, _, _, _, _),
          DesEagerSlotPush(_, _, _, _, _, _, _)

Fail(ds, e) == [ds EXCEPT !.ok = FALSE, !.err = e]

FailItems(r, e) == [r EXCEPT !.ds = Fail(@, e)]

(* LazyItem::Valid { data: None, offset: Some(offset) }, a new cell *)
OffsetOnly(ds, offset) ==
  [ds   |-> [ds EXCEPT !.cells = Append(@, Some(offset))],
   item |-> Valid(0, Len(ds.cells) + 1)]

(* What get_object does with the node that the load function returned: a   *)
(* new handle and a new cell, registered under the offset.                 *)
GetObjectLoaded(depth0, offset, r) ==
  IF ~r.ds.ok THEN [ds |-> [r.ds EXCEPT !.depth = depth0], item |-> Invalid]
  ELSE [ds   |-> [r.ds EXCEPT
                    !.nodes = Append(@, r.node),
                    !.cells = Append(@, Some(offset)),
                    !.reg   = (offset :> Valid(Len(r.ds.nodes) + 1,
                                               Len(r.ds.cells) + 1)) @@ @,
                    !.depth = depth0],
        item |-> Valid(Len(r.ds.nodes) + 1, Len(r.ds.cells) + 1)]

(* get_object were it never to look the offset up. *)
GetObjectNoLookup(file, ds, offset, ml) ==
  IF ml = 0 \/ offset \in ds.skipm THEN OffsetOnly(ds, offset)
  ELSE GetObjectLoaded(ds.depth, offset,
         DesNode(file, [ds EXCEPT !.skipm = @ \cup {offset},
                                  !.depth = @ + 1,
                                  !.maxDepth = Max(@, ds.depth + 1)],
                 offset, ml - 1))

(* get_object were it to leave the skip set as it found it. *)
GetObjectNoSkip(file, ds, offset, ml) ==
  IF offset \in DOMAIN ds.reg THEN [ds |-> ds, item |-> ds.reg[offset]]
  ELSE IF ml = 0 \/ offset \in ds.skipm THEN OffsetOnly(ds, offset)
  ELSE GetObjectLoaded(ds.depth, offset,
         DesNode(file, [ds EXCEPT !.depth = @ + 1,
                                  !.maxDepth = Max(@, ds.depth + 1)],
                 offset, ml - 1))

(* get_object were it to load whatever budget is left. *)
GetObjectNoBudget(file, ds, offset, ml) ==
  IF offset \in DOMAIN ds.reg THEN [ds |-> ds, item |-> ds.reg[offset]]
  ELSE IF offset \in ds.skipm THEN OffsetOnly(ds, offset)
  ELSE GetObjectLoaded(ds.depth, offset,
         DesNode(file, [ds EXCEPT !.skipm = @ \cup {offset},
                                  !.depth = @ + 1,
                                  !.maxDepth = Max(@, ds.depth + 1)],
                 offset, ml - 1))

(* NodeRegistry::get_object: a registered offset gives a clone of what is  *)
(* registered; with no budget left, or at an offset in the skip set, an    *)
(* offset-only cell; otherwise the offset joins the skip set and the node  *)
(* is loaded with the budget less one.                                     *)
GetObject(file, ds, offset, ml) ==
  IF offset \in DOMAIN ds.reg THEN [ds |-> ds, item |-> ds.reg[offset]]
  ELSE IF ml = 0 \/ offset \in ds.skipm THEN OffsetOnly(ds, offset)
  ELSE GetObjectLoaded(ds.depth, offset,
         DesNode(file, [ds EXCEPT !.skipm = @ \cup {offset},
                                  !.depth = @ + 1,
                                  !.maxDepth = Max(@, ds.depth + 1)],
                 offset, ml - 1))

(* LazyItem::deserialize were u32::MAX an offset like another. *)
DesLazyOfAny(file, ds, offset, ml) ==
  IF ~ds.ok THEN [ds |-> ds, item |-> Invalid] ELSE GetObject(file, ds, offset, ml)

(* LazyItem::deserialize *)
DesLazy(file, ds, offset, ml) ==
  IF ~ds.ok THEN [ds |-> ds, item |-> Invalid]
  ELSE IF offset = U32MAX THEN [ds |-> ds, item |-> Invalid]
  ELSE GetObject(file, ds, offset, ml)

(* The size of a MergedNode record and the places of its fields in it. *)
NodeRecordFields ==
  [size |-> 27, version_id |-> 0, hnsw_level |-> 2, prop_offset |-> 3,
   prop_length |-> 7, parent |-> 11, child |-> 15, neighbors |-> 19,
   versions |-> 23]

FieldU32(file, offset, at) == ReadU32(file, PosOf(offset) + at).val

(* MergedNode::deserialize: the record, then parent, child, neighbors and  *)
(* versions.  The node's prop is pending at the location read.             *)
DesNode(file, ds, offset, ml) ==
  IF ~ds.ok THEN [ds |-> ds, node |-> NewMergedNode(0, 0)]
  ELSE IF ds.count > Len(file)
    THEN [ds |-> Fail(ds, "Diverges"), node |-> NewMergedNode(0, 0)]
  ELSE IF ~CanRead(file, PosOf(offset), NodeRecordFields.size)
    THEN [ds |-> Fail(ds, "UnexpectedEof"), node |-> NewMergedNode(0, 0)]
  ELSE DesNodeChild(file, offset, ml,
         DesLazy(file, [ds EXCEPT !.count = @ + 1],
                 FieldU32(file, offset, NodeRecordFields.parent), ml))

DesNodeChild(file, offset, ml, rp) ==
  DesNodeNeighbors(file, offset, ml, rp.item,
    DesLazy(file, rp.ds, FieldU32(file, offset, NodeRecordFields.child), ml))

DesNodeNeighbors(file, offset, ml, parent, rc) ==
  DesNodeVersions(file, offset, ml, parent, rc.item,
    DesEagerSet(file, rc.ds, FieldU32(file, offset, NodeRecordFields.neighbors), ml))

DesNodeBuild(file, offset, parent, child, nbrs, rv) ==
  [ds   |-> rv.ds,
   node |-> [version_id   |-> ReadU16(file, PosOf(offset) + NodeRecordFields.version_id).val,
             hnsw_level   |-> ReadU8(file, PosOf(offset) + NodeRecordFields.hnsw_level).val,
             prop         |-> PropPending(
                                <<FieldU32(file, offset, NodeRecordFields.prop_offset),
                                  FieldU32(file, offset, NodeRecordFields.prop_length)>>),
             neighbors    |-> nbrs,
             parent       |-> parent,
             child        |-> child,
             versions     |-> rv.items,
             persist_flag |-> FALSE]]

DesNodeVersions(file, offset, ml, parent, child, rn) ==
  DesNodeBuild(file, offset, parent, child, rn.items,
    DesMap(file, rn.ds, FieldU32(file, offset, NodeRecordFields.versions), ml))

(* LazyItemMap::deserialize, lines 93-110: the slots i .. 4 of the chunk   *)
(* at cur; r = [ds, items] with the entries pushed so far.                 *)
DesMapSlots(file, r, cur, i, ml) ==
  IF i >= CHUNK_SIZE \/ ~r.ds.ok THEN r
  ELSE DesMapSlotEntry(file, r, cur, i, ml,
                       ReadU32(file, PosAdd(PosOf(cur), i * 4)))

(* lines 95-98: e is the entry offset read from slot i *)
DesMapSlotEntry(file, r, cur, i, ml, e) ==
  IF ~e.ok THEN FailItems(r, "UnexpectedEof")
  ELSE IF e.val = U32MAX THEN DesMapSlots(file, r, cur, i + 1, ml)
  ELSE DesMapSlotKey(file, r, cur, i, ml, KeyDeserialize(file, e.val))

(* lines 99-106: k is what the key's deserialize gave *)
DesMapSlotKey(file, r, cur, i, ml, k) ==
  IF ~k.ok THEN FailItems(r, k.err)
  ELSE DesMapSlotItem(file, r, cur, i, ml, k.key, ReadU32(file, k.pos))

(* lines 106-108: io is the item offset read after the key *)
DesMapSlotItem(file, r, cur, i, ml, key, io) ==
  IF ~io.ok THEN FailItems(r, "UnexpectedEof")
  ELSE DesMapSlotPush(file, r.items, cur, i, ml, key,
                      DesLazy(file, r.ds, io.val, ml))

(* line 109 *)
DesMapSlotPush(file, items, cur, i, ml, key, rl) ==
  DesMapSlots(file,
    [ds |-> rl.ds,
     items |-> IF rl.ds.ok THEN Append(items, [key |-> key, item |-> rl.item])
               ELSE items],
    cur, i + 1, ml)

(* lines 92-119: the chunks from cur on; seen holds the chunks already     *)
(* read, and reading one of them again repeats for ever.                   *)
DesMapChunks(file, r, cur, ml, seen) ==
  IF ~r.ds.ok THEN r
  ELSE IF cur \in seen THEN FailItems(r, "Diverges")
  ELSE DesMapChunkLink(file, cur, ml, seen, DesMapSlots(file, r, cur, 0, ml))

(* lines 111-115 *)
DesMapChunkLink(file, cur, ml, seen, r) ==
  IF ~r.ds.ok THEN r
  ELSE DesMapChunkNext(file, cur, ml, seen, r,
         ReadU32(file, PosAdd(PosOf(cur), CHUNK_SIZE * 4)))

(* lines 115-118 *)
DesMapChunkNext(file, cur, ml, seen, r, link) ==
  IF ~link.ok THEN FailItems(r, "UnexpectedEof")
  ELSE IF link.val = U32MAX THEN r
  ELSE DesMapChunks(file, r, link.val, ml, seen \cup {cur})

(* lines 120-122; an Err that a '?' returned carries no map *)
DesMapBuild(r) ==
  [ds |-> r.ds, items |-> IF r.ds.ok THEN MapFromIter(r.items) ELSE << >>]

(* LazyItemMap::deserialize *)
DesMap(file, ds, offset, ml) ==
  IF ~ds.ok THEN [ds |-> ds, items |-> << >>]
  ELSE IF offset = U32MAX THEN [ds |-> ds, items |-> << >>]
  ELSE DesMapBuild(DesMapChunks(file, [ds |-> ds, items |-> << >>], offset, ml, {}))

(* EagerLazyItemSet::deserialize: as the map, an entry being the eager     *)
(* payload and then the item's offset.                                     *)
DesEagerSlots(file, r, cur, i, ml) ==
  IF i >= CHUNK_SIZE \/ ~r.ds.ok THEN r
  ELSE DesEagerSlotEntry(file, r, cur, i, ml,
                         ReadU32(file, PosAdd(PosOf(cur), i * 4)))

DesEagerSlotEntry(file, r, cur, i, ml, e) ==
  IF ~e.ok THEN FailItems(r, "UnexpectedEof")
  ELSE IF e.val = U32MAX THEN DesEagerSlots(file, r, cur, i + 1, ml)
  ELSE DesEagerSlotEager(file, r, cur, i, ml, ReadU32(file, PosOf(e.val)))

DesEagerSlotEager(file, r, cur, i, ml, g) ==
  IF ~g.ok THEN FailItems(r, "UnexpectedEof")
  ELSE DesEagerSlotItem(file, r, cur, i, ml, g.val, ReadU32(file, g.pos))

DesEagerSlotItem(file, r, cur, i, ml, eager, io) ==
  IF ~io.ok THEN FailItems(r, "UnexpectedEof")
  ELSE DesEagerSlotPush(file, r.items, cur, i, ml, eager,
                        DesLazy(file, r.ds, io.val, ml))

DesEagerSlotPush(file, items, cur, i, ml, eager, rl) ==
  DesEagerSlots(file,
    [ds |-> rl.ds,
     items |-> IF rl.ds.ok THEN Append(items, [eager |-> eager, item |-> rl.item])
               ELSE items],
    cur, i + 1, ml)

DesEagerChunks(file, r, cur, ml, seen) ==
  IF ~r.ds.ok THEN r
  ELSE IF cur \in seen THEN FailItems(r, "Diverges")
  ELSE DesEagerChunkLink(file, cur, ml, seen, DesEagerSlots(file, r, cur, 0, ml))

DesEagerChunkLink(file, cur, ml, seen, r) ==
  IF ~r.ds.ok THEN r
  ELSE DesEagerChunkNext(file, cur, ml, seen, r,
         ReadU32(file, PosAdd(PosOf(cur), CHUNK_SIZE * 4)))

DesEagerChunkNext(file, cur, ml, seen, r, link) ==
  IF ~link.ok THEN FailItems(r, "UnexpectedEof")
  ELSE IF link.val = U32MAX THEN r
  ELSE DesEagerChunks(file, r, link.val, ml, seen \cup {cur})

DesEagerBuild(r) ==
  [ds |-> r.ds, items |-> SetFromIter(r.ds.nodes, r.ds.cells, r.items)]

DesEagerSet(file, ds, offset, ml) ==
  IF ~ds.ok THEN [ds |-> ds, items |-> << >>]
  ELSE IF offset = U32MAX THEN [ds |-> ds, items |-> << >>]
  ELSE DesEagerBuild(DesEagerChunks(file, [ds |-> ds, items |-> << >>], offset, ml, {}))

(***************************************************************************)
(* The state.                                                              *)
(*   nodes, cells  the heap                                                *)
(*   map           a LazyItemMap that is built, serialized and loaded      *)
(*   key           an IdentityMapKey that is serialized and deserialized   *)
(*   w             the writer; its buffer is the file the registry reads   *)
(*   phase         "build" until serialize has been called, then "written" *)
(*   root          what serialize was called on and what it returned       *)
(*   budget        the max_loads budget of the registry                    *)
(*   reg           the registry: offset -> lazy item                       *)
(*   loads         the load_item calls made so far, with their results     *)
(*   added         per node, the add_ready_neighbor calls made on it       *)
(*                                                                         *)
(* The lazy cells and collections on their own:                            *)
(*   pool          the LazyItem values made so far                         *)
(*   refs          the LazyItemRef handles made so far: what each holds    *)
(*   lset, nset    a LazyItemSet and an EagerLazyItemSet                   *)
(*   calls         the insert calls made on lset, nset and map             *)
(* The shared cells (ArcShift) of one node and its owners:                 *)
(*   arc           per cell, the values it has held, the last one current  *)
(*   owners        per clone, the value of each cell it was made at        *)
(*   written       per cell, what the last completed write stored          *)
(*   committed     the cells of the node as the last commit wrote them     *)
(*   threads       the insert and iter calls in progress                   *)
(* The store of src/api_service.rs:                                        *)
(*   db            the metadata and embeddings tables                      *)
(*   files         per version, the index file                             *)
(*   cur           VectorStore::current_version                            *)
(*   up            the run_upload call in progress                         *)
(*   obs           what readers have resolved current_version to           *)
(*   ret           what the last init_vector_store or run_upload returned  *)
(*   props         prop.data and the property location held by each node   *)
(* The global environment of src/models/types.rs:                          *)
(*   env           the OnceLock AIN_ENV                                    *)
(*   callers       the get_app_env calls made so far                       *)
(* A writer far into a file:                                               *)
(*   base          the stream position, a u32, at which w.buf begins       *)
(***************************************************************************)
VARIABLES nodes, cells, map, key, w, phase, root, budget, reg, loads, added,
          pool, refs, lset, nset, calls,
          arc, owners, written, committed, threads,
          db, files, cur, up, obs,
          ret, props, env, callers, base

graphVars == <<nodes, cells, map, key, w, phase, root, budget, reg, loads, added>>

cellVars == <<pool, refs, lset, nset, calls>>

sharedVars == <<arc, owners, written, committed, threads>>

storeVars == <<db, files, cur, up, obs>>

apiVars == <<ret, props, env, callers, base>>

vars == <<graphVars, cellVars, sharedVars, storeVars, apiVars>>

(* Node i is created as MergedNode::new(NodeAttrs[i][1], NodeAttrs[i][2]). *)
NodeAttrs == << <<1, 2>>, <<258, 0>>, <<3, 1>>, <<4, 2>>, <<5, 3>> >>

(* The similarity of a neighbor edge to node m, as the bits of an f32. *)
SimOf(m) == 1063675494 + m

NodeIds == 1 .. Len(nodes)

(* The cell made by LazyItem::new(node i) when node i was created. *)
CellOf(i) == Valid(i, i)

NextOf(n) == IF n = MaxNodes THEN 1 ELSE n + 1

PrevOf(n) == IF n = 1 THEN MaxNodes ELSE n - 1

(* A writer that already holds n bytes. *)
WriterAt(n) == [buf |-> [i \in 1 .. n |-> 0], pos |-> n]

(* The cell made by LazyItem::from_item or from_data in the next call. *)
FreshCell(n) == Valid(n, Len(cells) + 1)

NoRoot == [kind |-> "none", n |-> 0, off |-> U32MAX, ok |-> FALSE, pos |-> 0,
           count |-> 0, heap |-> 0]

NewSt == [w |-> w, cells |-> cells, ok |-> TRUE, count |-> 0]

(* The parts of the state that a specification leaves unused. *)
GraphIdle ==
  /\ nodes = << >>
  /\ cells = << >>
  /\ map = << >>
  /\ key = KeyInt(0)
  /\ w = NewWriter
  /\ phase = "build"
  /\ root = NoRoot
  /\ budget = 0
  /\ reg = << >>
  /\ loads = << >>
  /\ added = << >>

CellsIdle ==
  /\ pool = << >>
  /\ refs = << >>
  /\ lset = << >>
  /\ nset = << >>
  /\ calls = << >>

SharedIdle ==
  /\ arc = << >>
  /\ owners = << >>
  /\ written = << >>
  /\ committed = << >>
  /\ threads = << >>

StoreIdle ==
  /\ db = << >>
  /\ files = << >>
  /\ cur = << >>
  /\ up = << >>
  /\ obs = << >>

ApiIdle ==
  /\ ret = << >>
  /\ props = << >>
  /\ env = << >>
  /\ callers = << >>
  /\ base = 0

Init ==
  /\ nodes = << >>
  /\ cells = << >>
  /\ map = << >>
  /\ key = KeyInt(0)
  /\ w = NewWriter
  /\ phase = "build"
  /\ root = NoRoot
  /\ budget = 0
  /\ reg = << >>
  /\ loads = << >>
  /\ added = << >>
  /\ CellsIdle
  /\ SharedIdle
  /\ StoreIdle
  /\ ApiIdle

(* LazyItem::new(MergedNode::new(v, l)) *)
NewNode ==
  /\ phase = "build"
  /\ Len(nodes) < MaxNodes
  /\ Len(cells) = Len(nodes)
  /\ nodes' = Append(nodes, NewMergedNode(NodeAttrs[Len(nodes) + 1][1],
                                          NodeAttrs[Len(nodes) + 1][2]))
  /\ cells' = Append(cells, None)
  /\ added' = Append(added, << >>)
  /\ UNCHANGED <<cellVars, sharedVars, storeVars, apiVars, map, key, w, phase, root, budget, reg, loads>>

(* MergedNode::set_parent *)
SetParent(n, lz) ==
  /\ phase = "build"
  /\ nodes' = [nodes EXCEPT ![n].parent = lz]
  /\ UNCHANGED <<cellVars, sharedVars, storeVars, apiVars, cells, map, key, w, phase, root, budget, reg, loads, added>>

(* MergedNode::set_child *)
SetChild(n, lz) ==
  /\ phase = "build"
  /\ nodes' = [nodes EXCEPT ![n].child = lz]
  /\ UNCHANGED <<cellVars, sharedVars, storeVars, apiVars, cells, map, key, w, phase, root, budget, reg, loads, added>>

(* node.add_ready_neighbor(LazyItem::from_item(m), sim), with              *)
(* EagerLazyItemSet::insert                                                *)
AddReadyNeighbor(n, m, sim) ==
  /\ phase = "build"
  /\ cells' = Append(cells, None)
  /\ nodes' = [nodes EXCEPT ![n].neighbors =
                 SetInsert(@, [id |-> <<"Memory", NodeGetId(nodes, m)>>,
                               eager |-> sim, item |-> FreshCell(m)])]
  /\ added' = [added EXCEPT ![n] = Append(@, [eager |-> sim, node |-> m])]
  /\ UNCHANGED <<cellVars, sharedVars, storeVars, apiVars, map, key, w, phase, root, budget, reg, loads>>

(* A key of its own for every version. *)
VersionKeyOfNode(m) == KeyInt(m)

(* add_version, line 206: the key of every version is IdentityMapKey::Int(0) *)
VersionKey(m) == KeyInt(0)

(* node.add_version(m), with LazyItem::from_item and LazyItemMap::insert *)
AddVersion(n, m) ==
  /\ phase = "build"
  /\ cells' = Append(cells, None)
  /\ nodes' = [nodes EXCEPT ![n].versions =
                 MapInsert(@, [key |-> VersionKey(m), item |-> FreshCell(m)])]
  /\ UNCHANGED <<cellVars, sharedVars, storeVars, apiVars, map, key, w, phase, root, budget, reg, loads, added>>

(* MergedNode::set_prop_location *)
SetPropLocation(n, loc) ==
  /\ phase = "build"
  /\ nodes' = [nodes EXCEPT ![n].prop = PropPending(loc)]
  /\ UNCHANGED <<cellVars, sharedVars, storeVars, apiVars, cells, map, key, w, phase, root, budget, reg, loads, added>>

(* What serialize(writer) did, r being what it returned; then              *)
(* NodeRegistry::new(b, reader) over the bytes written.                    *)
Serialized(kind, n, b, r) ==
  /\ w' = r.st.w
  /\ cells' = r.st.cells
  /\ root' = [kind |-> kind, n |-> n, off |-> r.off, ok |-> r.st.ok, pos |-> w.pos,
              count |-> r.st.count, heap |-> Len(nodes)]
  /\ phase' = "written"
  /\ budget' = b
  /\ UNCHANGED <<cellVars, sharedVars, storeVars, apiVars, nodes, map, key, reg, loads, added>>

(* lazy_ref.serialize(writer) on LazyItemRef::from_lazy(cell of n), or     *)
(* node.serialize(writer) on node n.                                       *)
Serialize(kind, n, b) ==
  /\ phase = "build"
  /\ Serialized(kind, n, b,
       IF kind = "lazy" THEN SerLazy(nodes, NewSt, CellOf(n))
       ELSE SerNode(nodes, NewSt, n))

(* The offsets a caller can know: the one serialize returned, those the    *)
(* cells it holds carry, and u32::MAX.                                     *)
KnownOffsets ==
  {root.off, U32MAX}
    \cup {cells[c][1] : c \in {c \in 1 .. Len(cells) : cells[c] # None}}

NewDs == [nodes |-> nodes, cells |-> cells, reg |-> reg, skipm |-> {},
          ok |-> TRUE, err |-> "", depth |-> 0, maxDepth |-> 0, count |-> 0]

(* load_item::<MergedNode>: the node is returned by value; it is kept on   *)
(* the heap under a handle and a cell of its own.                          *)
NodeLoaded(r) ==
  IF ~r.ds.ok THEN [ds |-> r.ds, item |-> Invalid, items |-> << >>]
  ELSE [ds    |-> [r.ds EXCEPT !.nodes = Append(@, r.node),
                               !.cells = Append(@, None)],
        item  |-> Valid(Len(r.ds.nodes) + 1, Len(r.ds.cells) + 1),
        items |-> << >>]

LazyLoaded(r) == [ds |-> r.ds, item |-> r.item, items |-> << >>]

MapLoaded(r) == [ds |-> r.ds, item |-> Invalid, items |-> r.items]

(* What load_item did, r being what it returned. *)
Loaded(kind, offset, r) ==
  /\ nodes' = r.ds.nodes
  /\ cells' = r.ds.cells
  /\ reg' = r.ds.reg
  /\ loads' = Append(loads, [kind |-> kind, off |-> offset, ok |-> r.ds.ok,
                             err |-> r.ds.err, item |-> r.item,
                             items |-> r.items, key |-> KeyInt(0),
                             maxDepth |-> r.ds.maxDepth, count |-> r.ds.count])
  /\ UNCHANGED <<cellVars, sharedVars, storeVars, apiVars, map, key, w, phase, root, budget, added>>

(* NodeRegistry::load_item::<T>(offset), T = LazyItemRef ("lazy") or       *)
(* MergedNode ("node"): a fresh skip set, then T::deserialize.             *)
LoadItem(kind, offset) ==
  /\ phase = "written"
  /\ root.ok
  /\ Len(loads) < MaxLoadCalls
  /\ Loaded(kind, offset,
       IF kind = "lazy" THEN LazyLoaded(DesLazy(w.buf, NewDs, offset, budget))
       ELSE NodeLoaded(DesNode(w.buf, NewDs, offset, budget)))

(* The graphs built: node n's parent is the next node of the ring, the     *)
(* child link of a node answers a parent link to it, and the first node    *)
(* has the last one for its neighbor, as in the cyclic tests of            *)
(* serializer/tests.rs.                                                    *)
Next ==
  \/ NewNode
  \/ \E n \in NodeIds : NextOf(n) \in NodeIds /\ SetParent(n, CellOf(NextOf(n)))
  \/ \E n \in NodeIds :
       /\ PrevOf(n) \in NodeIds
       /\ nodes[PrevOf(n)].parent = CellOf(n)
       /\ SetChild(n, CellOf(PrevOf(n)))
  \/ /\ phase = "build"
     /\ MaxNodes \in NodeIds
     /\ added[1] = << >>
     /\ AddReadyNeighbor(1, MaxNodes, SimOf(MaxNodes))
  \/ \E kind \in {"lazy", "node"}, n \in NodeIds, b \in 0 .. MaxBudget :
       Serialize(kind, n, b)
  \/ \E kind \in {"lazy", "node"}, o \in KnownOffsets :
       (kind = "node" => o # U32MAX) /\ LoadItem(kind, o)

Spec == Init /\ [][Next]_vars

(***************************************************************************)
(* One node with its links: node 1 is given neighbors, versions, a parent  *)
(* and a child among the other nodes, the last of which may have had its   *)
(* prop located;                                                           *)
(* it is serialized and loaded once at the offset returned.                *)
(***************************************************************************)
(* Where set_prop_location puts the prop of node n. *)
PropLocationOf(n) == <<16 * n, 4>>

(* The add_version calls made so far: each call and each                   *)
(* add_ready_neighbor call has made one cell.                              *)
VersionsAdded == Len(cells) - Len(nodes) - Len(added[1])

NextNode ==
  \/ NewNode
  \/ /\ Len(nodes) = MaxNodes
     /\ nodes[MaxNodes].prop = PropPending(<<0, 0>>)
     /\ SetPropLocation(MaxNodes, PropLocationOf(MaxNodes))
  \/ \E m \in NodeIds \ {1} :
       /\ phase = "build"
       /\ Len(nodes) = MaxNodes
       /\ Len(added[1]) < MaxNbrs
       /\ AddReadyNeighbor(1, m, SimOf(m))
  \/ \E m \in NodeIds \ {1} :
       /\ phase = "build"
       /\ Len(nodes) = MaxNodes
       /\ VersionsAdded < MaxVersions
       /\ AddVersion(1, m)
  \/ 2 \in NodeIds /\ SetParent(1, CellOf(2))
  \/ MaxNodes \in NodeIds /\ SetChild(1, CellOf(MaxNodes))
  \/ \E kind \in {"lazy", "node"}, b \in 0 .. MaxBudget :
       1 \in NodeIds /\ Serialize(kind, 1, b)
  \/ \E kind \in {"lazy", "node"} : loads = << >> /\ LoadItem(kind, root.off)

SpecNode == Init /\ [][NextNode]_vars

(***************************************************************************)
(* A LazyItemMap on its own: entries are inserted under new keys, the map  *)
(* is serialized at some position of a writer and deserialized at the      *)
(* offset returned, or at u32::MAX.                                        *)
(***************************************************************************)
(* The key of the i-th entry inserted: a String every fourth time. *)
MapKeyAt(i) == IF i % 4 = 0 THEN KeyString(<<64 + (i \div 4)>>) ELSE KeyInt(i)

InitMap ==
  /\ nodes = << >>
  /\ cells = << >>
  /\ map = << >>
  /\ key = KeyInt(0)
  /\ w \in {WriterAt(n) : n \in 0 .. MaxPad}
  /\ phase = "build"
  /\ root = NoRoot
  /\ budget = 0
  /\ reg = << >>
  /\ loads = << >>
  /\ added = << >>
  /\ CellsIdle
  /\ SharedIdle
  /\ StoreIdle
  /\ ApiIdle

(* map.insert(k, LazyItem::from_data(MergedNode::new(v, l))) *)
InsertData(k, v, l) ==
  /\ phase = "build"
  /\ Len(map) < MaxEntries
  /\ nodes' = Append(nodes, NewMergedNode(v, l))
  /\ cells' = Append(cells, None)
  /\ added' = Append(added, << >>)
  /\ map' = MapInsert(map, [key |-> k, item |-> Valid(Len(nodes) + 1, Len(cells) + 1)])
  /\ UNCHANGED <<cellVars, sharedVars, storeVars, apiVars, key, w, phase, root, budget, reg, loads>>

(* map.insert(k, LazyItem::new_invalid()) *)
InsertInvalid(k) ==
  /\ phase = "build"
  /\ Len(map) < MaxEntries
  /\ map' = MapInsert(map, [key |-> k, item |-> Invalid])
  /\ UNCHANGED <<cellVars, sharedVars, storeVars, apiVars, nodes, cells, key, w, phase, root, budget, reg, loads, added>>

MapSerialized(b, r) ==
  /\ w' = r.st.w
  /\ cells' = r.st.cells
  /\ root' = [kind |-> "map", n |-> 0, off |-> r.off, ok |-> r.st.ok, pos |-> w.pos,
              count |-> r.st.count, heap |-> Len(nodes)]
  /\ phase' = "written"
  /\ budget' = b
  /\ UNCHANGED <<cellVars, sharedVars, storeVars, apiVars, nodes, map, key, reg, loads, added>>

(* map.serialize(writer); then NodeRegistry::new(b, reader) *)
SerializeMap(b) ==
  /\ phase = "build"
  /\ MapSerialized(b, SerMap(nodes, NewSt, map))

(* LazyItemMap::deserialize(reader, offset, cache, max_loads, skipm) with  *)
(* a fresh skip set                                                        *)
LoadMap(offset) ==
  /\ phase = "written"
  /\ root.kind = "map"
  /\ root.ok
  /\ Len(loads) < MaxLoadCalls
  /\ Loaded("map", offset, MapLoaded(DesMap(w.buf, NewDs, offset, budget)))

NextMap ==
  \/ InsertData(MapKeyAt(Len(map) + 1), Len(map) + 1, 2)
  \/ (Len(map) + 1) % 3 = 0 /\ InsertInvalid(MapKeyAt(Len(map) + 1))
  \/ \E b \in 0 .. 1 : SerializeMap(b)
  \/ \E o \in {root.off, U32MAX} : LoadMap(o)

SpecMap == InitMap /\ [][NextMap]_vars

(***************************************************************************)
(* Keys on their own: an IdentityMapKey is serialized at some position of  *)
(* a writer and deserialized at the offset returned.                       *)
(***************************************************************************)
KeyInts == {0, 1, 255, 65536, 2147483647, MSB, MSB + 5, U32MAX}

KeyBytes == {65, 66, 195, 169}

RECURSIVE BytesUpTo(_)
BytesUpTo(n) ==
  IF n = 0 THEN {<< >>}
  ELSE BytesUpTo(n - 1) \cup
       {Append(s, b) : s \in {t \in BytesUpTo(n - 1) : Len(t) = n - 1}, b \in KeyBytes}

(* A String holds well-formed UTF-8. *)
KeyStrings == {s \in BytesUpTo(MaxStrLen) : IsUtf8(s)}

KeyInputs == {KeyInt(n) : n \in KeyInts} \cup {KeyString(s) : s \in KeyStrings}

InitKey ==
  /\ nodes = << >>
  /\ cells = << >>
  /\ map = << >>
  /\ key \in KeyInputs
  /\ w \in {WriterAt(n) : n \in 0 .. MaxPad}
  /\ phase = "build"
  /\ root = NoRoot
  /\ budget = 0
  /\ reg = << >>
  /\ loads = << >>
  /\ added = << >>
  /\ CellsIdle
  /\ SharedIdle
  /\ StoreIdle
  /\ ApiIdle

KeySerialized(r) ==
  /\ w' = r.w
  /\ root' = [kind |-> "key", n |-> 0, off |-> r.off, ok |-> TRUE, pos |-> w.pos,
              count |-> 0, heap |-> 0]
  /\ phase' = "written"
  /\ UNCHANGED <<cellVars, sharedVars, storeVars, apiVars, nodes, cells, map, key, budget, reg, loads, added>>

(* key.serialize(writer) *)
SerializeKey ==
  /\ phase = "build"
  /\ KeySerialized(KeySerialize(w, key))

KeyDeserialized(k) ==
  /\ loads' = Append(loads, [kind |-> "key", off |-> root.off, ok |-> k.ok,
                             err |-> k.err, item |-> Invalid, items |-> << >>,
                             key |-> k.key, maxDepth |-> 0, count |-> 0])
  /\ UNCHANGED <<cellVars, sharedVars, storeVars, apiVars, nodes, cells, map, key, w, phase, root, budget, reg, added>>

(* IdentityMapKey::deserialize(reader, offset, ..) at the offset returned *)
DeserializeKey ==
  /\ phase = "written"
  /\ root.kind = "key"
  /\ loads = << >>
  /\ KeyDeserialized(KeyDeserialize(w.buf, root.off))

NextKey == SerializeKey \/ DeserializeKey

SpecKey == InitKey /\ [][NextKey]_vars

(***************************************************************************)
(* Properties.                                                             *)
(***************************************************************************)
LoadIds == 1 .. Len(loads)

(* The nodes that loads have put on the heap. *)
LoadedIds == (root.heap + 1) .. Len(nodes)

(* The lazy items a node links to. *)
LinksOf(node) ==
  {node.parent, node.child}
    \cup {node.neighbors[j].item : j \in 1 .. Len(node.neighbors)}
    \cup {node.versions[j].item : j \in 1 .. Len(node.versions)}

HasData(lz) == lz.valid /\ lz.data # 0

HasOffset(lz) == lz.valid /\ cells[lz.cell] # None

OffsetOf(lz) == cells[lz.cell][1]

Registered(lz) == HasOffset(lz) /\ OffsetOf(lz) \in DOMAIN reg /\ reg[OffsetOf(lz)] = lz

(* A load through the registry that gave a node. *)
LazyLoadWithData(i) == loads[i].kind = "lazy" /\ loads[i].ok /\ HasData(loads[i].item)

CellsBuilt == root.heap + Len(added[1])

(* C2: on every graph built, cyclic or not, serialize returns, having      *)
(* begun no more node records than there are cells and one for the root,   *)
(* and every load_item returns, having begun no record twice but the one   *)
(* it was called on.                                                       *)
C2_Terminates ==
  (phase = "written" /\ root.kind \in {"lazy", "node"}) =>
    /\ root.ok
    /\ root.count <= CellsBuilt + 1
    /\ \A i \in LoadIds :
         /\ loads[i].ok
         /\ loads[i].err # "Diverges"
         /\ loads[i].count <= root.count + 1

(* C2's case: a parent/child cycle and a cycle through a neighbor link,    *)
(* serialized and loaded with all its nodes.                               *)
C2_Witness ==
  /\ Len(nodes) > MaxNodes
  /\ nodes[1].parent = CellOf(2)
  /\ nodes[2].child = CellOf(1)
  /\ nodes[MaxNodes].parent = CellOf(1)
  /\ Len(nodes[1].neighbors) = 1
  /\ root.n = 1
  /\ \E i \in LoadIds : loads[i].ok /\ loads[i].off = root.off /\ loads[i].count >= MaxNodes

(* What a lazy item resolves to: itself when it has its data, else what    *)
(* the registry holds for its offset, else nothing (Invalid).              *)
Resolve(lz) ==
  IF HasData(lz) THEN lz
  ELSE IF HasOffset(lz) /\ OffsetOf(lz) \in DOMAIN reg THEN reg[OffsetOf(lz)]
  ELSE Invalid

(* Node a was built with a.parent = b and b.child = a. *)
BuiltCycle(a, b) ==
  /\ a \in 1 .. root.heap /\ b \in 1 .. root.heap
  /\ nodes[a].parent = CellOf(b)
  /\ nodes[b].child = CellOf(a)

ParentsChild(lz) == Resolve(nodes[Resolve(nodes[lz.data].parent).data].child)

CycleResolves(lz) ==
  /\ HasData(Resolve(nodes[lz.data].parent))
  /\ HasData(ParentsChild(lz))

(* C3: after A.parent = B, B.child = A, serialize from A and load A,       *)
(* A.parent.child, where it resolves, is the handle of the loaded A.       *)
C3_CyclePreserved ==
  \A i \in LoadIds :
    (/\ loads[i].ok
     /\ loads[i].off = root.off
     /\ HasData(loads[i].item)
     /\ \E b \in 1 .. root.heap : BuiltCycle(root.n, b)
     /\ CycleResolves(loads[i].item))
      => ParentsChild(loads[i].item).data = loads[i].item.data

(* C4: no load nests node materializations deeper than the budget; with    *)
(* the budget spent the loader gives a Valid cell with the offset and no   *)
(* data: a load_item with no budget gives such a cell, a node loaded with  *)
(* no budget has such cells for all its links, and any link without data   *)
(* carries its offset.                                                     *)
C4_BoundedDepth ==
  phase = "written" =>
    /\ \A i \in LoadIds : loads[i].maxDepth <= budget
    /\ \A i \in LoadIds :
         (loads[i].kind = "lazy" /\ budget = 0 /\ loads[i].off # U32MAX) =>
           /\ loads[i].ok
           /\ loads[i].item.valid /\ loads[i].item.data = 0
           /\ cells[loads[i].item.cell] = Some(loads[i].off)
    /\ \A i \in LoadIds :
         (loads[i].kind = "node" /\ budget = 0 /\ loads[i].ok) =>
           \A lz \in LinksOf(nodes[loads[i].item.data]) : lz.data = 0
    /\ \A n \in LoadedIds : \A lz \in LinksOf(nodes[n]) :
         (lz.valid /\ lz.data = 0) => HasOffset(lz)

(* C4's case: a budget of one is spent on the node loaded, whose parent is *)
(* then a cell with the offset and no data.                                *)
C4_Witness ==
  \E i \in LoadIds :
    /\ budget = 1
    /\ LazyLoadWithData(i)
    /\ loads[i].maxDepth = 1
    /\ nodes[loads[i].item.data].parent.valid
    /\ nodes[loads[i].item.data].parent.data = 0
    /\ HasOffset(nodes[loads[i].item.data].parent)

(* What C5 compares of a loaded node l and the node o it was written from. *)
SameShape(l, o) ==
  /\ l.version_id = o.version_id
  /\ l.hnsw_level = o.hnsw_level
  /\ Len(l.neighbors) = Len(o.neighbors)
  /\ Len(l.versions) = Len(o.versions)
  /\ l.parent.valid = o.parent.valid
  /\ l.child.valid = o.child.valid

(* C5: a node loaded at the offset its serialize returned has the          *)
(* version_id, the hnsw_level, the number of neighbors, the number of      *)
(* versions and the validity of parent and of child of the node written.   *)
C5_NodeRoundTrip ==
  \A i \in LoadIds :
    (loads[i].kind \in {"lazy", "node"} /\ loads[i].off = root.off) =>
      /\ loads[i].ok
      /\ HasData(loads[i].item) => SameShape(nodes[loads[i].item.data], nodes[root.n])

(* C5's case: a node with two neighbors, a version, a parent and no child. *)
C5_Witness ==
  \E i \in LoadIds :
    /\ loads[i].ok /\ loads[i].off = root.off /\ HasData(loads[i].item)
    /\ Len(nodes[root.n].neighbors) = 2
    /\ Len(nodes[root.n].versions) = 1
    /\ nodes[root.n].parent.valid
    /\ ~nodes[root.n].child.valid
    /\ Len(nodes[loads[i].item.data].neighbors) = 2

(* The neighbors given to node n were distinct nodes, each as              *)
(* MergedNode::new made it.                                                *)
DistinctNewNeighbors(n) ==
  /\ \A j, k \in 1 .. Len(added[n]) : added[n][j].node = added[n][k].node => j = k
  /\ \A j \in 1 .. Len(added[n]) : nodes[added[n][j].node].prop = PropPending(<<0, 0>>)

(* The neighbors of node are the pairs of seq, in order: the similarity,   *)
(* and the target's version_id and hnsw_level.                             *)
NeighborsAre(node, seq) ==
  /\ Len(node.neighbors) = Len(seq)
  /\ \A j \in 1 .. Len(node.neighbors) :
       j <= Len(seq) =>
         /\ node.neighbors[j].eager = seq[j].eager
         /\ HasData(node.neighbors[j].item) =>
              /\ nodes[node.neighbors[j].item.data].version_id
                   = nodes[seq[j].node].version_id
              /\ nodes[node.neighbors[j].item.data].hnsw_level
                   = nodes[seq[j].node].hnsw_level

(* C6: k distinct MergedNode::new nodes added with add_ready_neighbor are  *)
(* the k neighbors held, and the k neighbors of the node loaded after      *)
(* serialize, in insertion order with the same similarities and targets.   *)
C6_NeighborRoundTrip ==
  (1 \in 1 .. Len(added) /\ DistinctNewNeighbors(1)) =>
    /\ NeighborsAre(nodes[1], added[1])
    /\ \A i \in LoadIds :
         (loads[i].ok /\ loads[i].off = root.off /\ HasData(loads[i].item) /\ root.n = 1)
           => NeighborsAre(nodes[loads[i].item.data], added[1])

(* The chunks of the collection at off, found by following the links,     *)
(* at most fuel of them.                                                   *)
RECURSIVE ChunkChain(_, _, _)
ChunkChain(file, off, fuel) ==
  IF off = U32MAX \/ fuel = 0 \/ ~CanRead(file, PosOf(off), (CHUNK_SIZE + 1) * 4)
  THEN << >>
  ELSE <<off>> \o ChunkChain(file, ReadU32(file, off + CHUNK_SIZE * 4).val, fuel - 1)

(* The bytes an entry of the map takes: its key, the item's offset, and    *)
(* the record of the item's node, which has no links.                      *)
EntryBytes(e) ==
  4 + Len(e.key.str) + 4 + (IF e.item.valid THEN NodeRecordFields.size ELSE 0)

RECURSIVE EntriesBytes(_, _)
EntriesBytes(items, n) ==
  IF n = 0 THEN 0 ELSE EntryBytes(items[n]) + EntriesBytes(items, n - 1)

(* The offset the item e was written at, u32::MAX for an Invalid one. *)
ItemOffset(e) == IF e.item.valid THEN OffsetOf(e.item) ELSE U32MAX

(* Slot i of the j-th chunk of ch holds entry 5(j-1)+i+1 of the map when    *)
(* there is one, else u32::MAX.                                             *)
SlotHolds(file, ch, j, i) ==
  IF CHUNK_SIZE * (j - 1) + i + 1 <= Len(map)
  THEN /\ ReadU32(file, ch[j] + 4 * i).val # U32MAX
       /\ KeyDeserialize(file, ReadU32(file, ch[j] + 4 * i).val).ok
       /\ KeyDeserialize(file, ReadU32(file, ch[j] + 4 * i).val).key
            = map[CHUNK_SIZE * (j - 1) + i + 1].key
       /\ ReadU32(file, KeyDeserialize(file, ReadU32(file, ch[j] + 4 * i).val).pos).val
            = ItemOffset(map[CHUNK_SIZE * (j - 1) + i + 1])
  ELSE ReadU32(file, ch[j] + 4 * i).val = U32MAX

(* The layout of the map written, ch being its chunks. *)
ChunkedLayout(file, ch) ==
  /\ Len(ch) = (Len(map) + CHUNK_SIZE - 1) \div CHUNK_SIZE
  /\ ch[1] = root.off
  /\ root.off = root.pos
  /\ \A j \in 1 .. Len(ch) : \A i \in 0 .. CHUNK_SIZE - 1 : SlotHolds(file, ch, j, i)
  /\ \A j \in 1 .. Len(ch) - 1 : ch[j + 1] > ch[j]
  /\ ReadU32(file, ch[Len(ch)] + CHUNK_SIZE * 4).val = U32MAX
  /\ Len(file) - root.pos
       = Len(ch) * (CHUNK_SIZE + 1) * 4 + EntriesBytes(map, Len(map))

(* The entries loaded are those of the map, in order. *)
SameEntries(items) ==
  /\ Len(items) = Len(map)
  /\ \A k \in 1 .. Len(items) :
       k <= Len(map) =>
         /\ items[k].key = map[k].key
         /\ items[k].item.valid = map[k].item.valid
         /\ items[k].item.valid => OffsetOf(items[k].item) = OffsetOf(map[k].item)

(* C7: a map of n >= 1 entries is written as ceil(n/5) chunks of 5 slots   *)
(* and a link: the slots hold the entries in insertion order, five to a    *)
(* chunk, the unused slots of the last chunk are u32::MAX, each link but   *)
(* the last is the start of the following chunk and the last is u32::MAX,  *)
(* nothing else is written but the entries; and the map deserialized at    *)
(* the offset returned has the n entries in insertion order.               *)
C7_ChunkedLayout ==
  (phase = "written" /\ root.kind = "map" /\ Len(map) >= 1) =>
    /\ root.ok
    /\ ChunkedLayout(w.buf, ChunkChain(w.buf, root.off, Len(map) + 1))
    /\ \A i \in LoadIds :
         loads[i].off = root.off => loads[i].ok /\ SameEntries(loads[i].items)

(* C7's case: 12 entries in three chunks, loaded. *)
C7_Witness ==
  /\ Len(map) = 12
  /\ phase = "written"
  /\ Len(ChunkChain(w.buf, root.off, Len(map) + 1)) = 3
  /\ ReadU32(w.buf, ChunkChain(w.buf, root.off, Len(map) + 1)[3] + 4).val # U32MAX
  /\ ReadU32(w.buf, ChunkChain(w.buf, root.off, Len(map) + 1)[3] + 8).val = U32MAX
  /\ \E i \in LoadIds : loads[i].off = root.off /\ loads[i].ok /\ Len(loads[i].items) = 12

(* C8: an empty map serializes to u32::MAX and leaves the writer as it     *)
(* was, no byte written and the position unmoved; deserializing at         *)
(* u32::MAX gives an empty map whatever the file holds, be it nothing,     *)
(* and touches neither the heap nor the registry.                          *)
C8_EmptyIsMax ==
  (phase = "written" /\ root.kind = "map") =>
    /\ map = << >> => (root.ok /\ root.off = U32MAX /\ w = WriterAt(root.pos))
    /\ map # << >> => root.off # U32MAX
    /\ \A i \in LoadIds :
         loads[i].off = U32MAX =>
           /\ loads[i].ok
           /\ loads[i].items = << >>
           /\ loads[i].count = 0
    /\ (\A i \in LoadIds : loads[i].off = U32MAX) =>
         (reg = << >> /\ Len(nodes) = root.heap)

(* C8's case: the empty map written to an empty file and loaded from it. *)
C8_Witness ==
  /\ map = << >>
  /\ phase = "written"
  /\ root.kind = "map"
  /\ w.buf = << >>
  /\ Len(loads) >= 1
  /\ loads[1].off = U32MAX /\ loads[1].ok /\ loads[1].items = << >>

(* The field of the record at the offset serialize returned. *)
RootField(at) == FieldU32(w.buf, root.off, at)

(* C9: an Invalid cell is written as u32::MAX and u32::MAX is read as an   *)
(* Invalid cell: the parent and child fields of the record written are     *)
(* u32::MAX exactly when the node's parent and child are Invalid, a        *)
(* load_item at u32::MAX gives Invalid, and a node loaded at the offset    *)
(* returned has an Invalid parent, or child, exactly when the node written *)
(* had.                                                                    *)
C9_InvalidIsMax ==
  (phase = "written" /\ root.kind \in {"lazy", "node"}) =>
    /\ root.ok
    /\ (RootField(NodeRecordFields.parent) = U32MAX) = ~nodes[root.n].parent.valid
    /\ (RootField(NodeRecordFields.child) = U32MAX) = ~nodes[root.n].child.valid
    /\ \A i \in LoadIds :
         /\ (loads[i].kind = "lazy" /\ loads[i].off = U32MAX) =>
              loads[i].ok /\ loads[i].item = Invalid
         /\ (loads[i].kind = "lazy" /\ loads[i].off # U32MAX) =>
              loads[i].ok /\ loads[i].item.valid
         /\ (loads[i].kind = "node" /\ loads[i].off = root.off) =>
              /\ loads[i].ok
              /\ nodes[loads[i].item.data].parent.valid = nodes[root.n].parent.valid
              /\ nodes[loads[i].item.data].child.valid = nodes[root.n].child.valid

(* C9's case: a node with no parent and no child, loaded, and a load_item  *)
(* at u32::MAX.                                                            *)
C9_Witness ==
  /\ Len(loads) = 2
  /\ ~nodes[root.n].parent.valid /\ ~nodes[root.n].child.valid
  /\ loads[1].kind = "node" /\ loads[1].off = root.off /\ loads[1].ok
  /\ ~nodes[loads[1].item.data].parent.valid
  /\ ~nodes[loads[1].item.data].child.valid
  /\ loads[2].kind = "lazy" /\ loads[2].off = U32MAX /\ loads[2].item = Invalid

(* C10: deserializing a key at the offset its serialize returned gives a   *)
(* key equal to the original, for every Int and every String.              *)
C10_KeyRoundTrip ==
  \A i \in 1 .. Len(loads) :
    loads[i].kind = "key" => loads[i].ok /\ loads[i].key = key

(***************************************************************************)
(* Lazy cells on their own: LazyItem values and LazyItemRef handles are    *)
(* made by their constructors and changed by set_data and set_offset.  A   *)
(* LazyItemRef is an Item<LazyItem>: refs[r] is the LazyItem it holds now, *)
(* and every clone of the handle sees it.                                  *)
(***************************************************************************)
(* The arguments given to set_offset. *)
OffsetArgs == {None, Some(0), Some(7)}

(* What the cell actions leave alone. *)
cellRest == <<map, key, w, phase, root, budget, reg, loads, added,
              lset, nset, calls, sharedVars, storeVars, apiVars>>

(* The node that Item::new(MergedNode::new(v, l)) makes next. *)
NextMergedNode ==
  NewMergedNode(NodeAttrs[(Len(nodes) % 5) + 1][1], NodeAttrs[(Len(nodes) % 5) + 1][2])

CanMake == Len(pool) + Len(refs) < MaxCells

(* LazyItem::new(item), LazyItem::from_data(data) *)
LazyNew ==
  /\ CanMake /\ Len(nodes) < MaxNodes
  /\ nodes' = Append(nodes, NextMergedNode)
  /\ cells' = Append(cells, None)
  /\ pool' = Append(pool, Valid(Len(nodes) + 1, Len(cells) + 1))
  /\ UNCHANGED <<refs, cellRest>>

(* LazyItem::new_invalid() *)
LazyNewInvalid ==
  /\ CanMake
  /\ pool' = Append(pool, Invalid)
  /\ UNCHANGED <<nodes, cells, refs, cellRest>>

(* LazyItem::from_item(item), item the node handle n *)
LazyFromItem(n) ==
  /\ CanMake
  /\ cells' = Append(cells, None)
  /\ pool' = Append(pool, Valid(n, Len(cells) + 1))
  /\ UNCHANGED <<nodes, refs, cellRest>>

(* LazyItem::set_data(new_data) on the value pool[i] *)
LazySetData(i) ==
  /\ Len(nodes) < MaxNodes
  /\ nodes' = Append(nodes, NextMergedNode)
  /\ pool' = IF pool[i].valid THEN [pool EXCEPT ![i].data = Len(nodes) + 1] ELSE pool
  /\ UNCHANGED <<cells, refs, cellRest>>

(* LazyItem::set_offset(new_offset) on the value pool[i] *)
LazySetOffset(i, o) ==
  /\ cells' = SetOffset(cells, pool[i], o)
  /\ UNCHANGED <<nodes, pool, refs, cellRest>>

(* LazyItemRef::new(item) *)
RefNew ==
  /\ CanMake /\ Len(nodes) < MaxNodes
  /\ nodes' = Append(nodes, NextMergedNode)
  /\ cells' = Append(cells, None)
  /\ refs' = Append(refs, Valid(Len(nodes) + 1, Len(cells) + 1))
  /\ UNCHANGED <<pool, cellRest>>

(* LazyItemRef::new_invalid() *)
RefNewInvalid ==
  /\ CanMake
  /\ refs' = Append(refs, Invalid)
  /\ UNCHANGED <<nodes, cells, pool, cellRest>>

(* LazyItemRef::from_item(item), item the node handle n *)
RefFromItem(n) ==
  /\ CanMake
  /\ cells' = Append(cells, None)
  /\ refs' = Append(refs, Valid(n, Len(cells) + 1))
  /\ UNCHANGED <<nodes, pool, cellRest>>

(* LazyItemRef::from_lazy(item), item a clone of pool[i] *)
RefFromLazy(i) ==
  /\ CanMake
  /\ refs' = Append(refs, pool[i])
  /\ UNCHANGED <<nodes, cells, pool, cellRest>>

(* LazyItemRef::set_data(new_data): the offset cell of a Valid item is     *)
(* kept, an Invalid one gets Item::new(None).                              *)
RefSetData(r) ==
  /\ Len(nodes) < MaxNodes
  /\ nodes' = Append(nodes, NextMergedNode)
  /\ cells' = IF refs[r].valid THEN cells ELSE Append(cells, None)
  /\ refs' = [refs EXCEPT ![r] =
                Valid(Len(nodes) + 1,
                      IF refs[r].valid THEN refs[r].cell ELSE Len(cells) + 1)]
  /\ UNCHANGED <<pool, cellRest>>

(* LazyItemRef::set_offset(new_offset): the data of a Valid item is kept,  *)
(* an Invalid one has None; the offset cell is Item::new(new_offset).      *)
RefSetOffset(r, o) ==
  /\ Len(cells) < MaxOffsetCells
  /\ cells' = Append(cells, o)
  /\ refs' = [refs EXCEPT ![r] =
                Valid(IF refs[r].valid THEN refs[r].data ELSE 0, Len(cells) + 1)]
  /\ UNCHANGED <<nodes, pool, cellRest>>

(* item.clone().get().clone() on the LazyItemRef refs[r]: a LazyItem clone *)
(* of the item the handle holds now, sharing that item's offset cell.      *)
RefItemClone(r) ==
  /\ CanMake
  /\ pool' = Append(pool, refs[r])
  /\ UNCHANGED <<nodes, cells, refs, cellRest>>

NextCell ==
  \/ LazyNew
  \/ LazyNewInvalid
  \/ \E n \in NodeIds : LazyFromItem(n)
  \/ \E i \in 1 .. Len(pool) : LazySetData(i)
  \/ \E i \in 1 .. Len(pool), o \in OffsetArgs : LazySetOffset(i, o)
  \/ RefNew
  \/ RefNewInvalid
  \/ \E n \in NodeIds : RefFromItem(n)
  \/ \E i \in 1 .. Len(pool) : RefFromLazy(i)
  \/ \E r \in 1 .. Len(refs) : RefSetData(r)
  \/ \E r \in 1 .. Len(refs), o \in OffsetArgs : RefSetOffset(r, o)
  \/ \E r \in 1 .. Len(refs) : RefItemClone(r)

SpecCell == Init /\ [][NextCell]_vars

(* A Valid item has data or an offset. *)
DataOrOffset(lz) == lz.valid => (lz.data # 0 \/ cells[lz.cell] # None)

(* C11: every cell that is Valid, whichever constructors and set_data or   *)
(* set_offset calls made it, has data present or an offset present.        *)
C11_ValidHasDataOrOffset ==
  /\ \A i \in 1 .. Len(pool) : DataOrOffset(pool[i])
  /\ \A r \in 1 .. Len(refs) : DataOrOffset(refs[r])

(* The LazyItem values that share the offset cell of the value lz. *)
ClonesOf(lz) == {i \in 1 .. Len(pool) : pool[i].valid /\ lz.valid /\ pool[i].cell = lz.cell}

(* The handles whose item shares the offset cell of the value lz. *)
HoldersOf(lz) == {r \in 1 .. Len(refs) : refs[r].valid /\ lz.valid /\ refs[r].cell = lz.cell}

(* set_offset(o) through the LazyItem pool[i] is seen by every clone of it *)
(* and by every handle that holds one.                                     *)
LazySetOffsetSeen(i, o) ==
  LazySetOffset(i, o) =>
    /\ \A j \in ClonesOf(pool[i]) : GetOffset(cells', pool'[j]) = o
    /\ \A r \in HoldersOf(pool[i]) : GetOffset(cells', refs'[r]) = o

(* set_offset(o) through the handle refs[r] is seen by every LazyItem     *)
(* clone of the item the handle held.                                      *)
RefSetOffsetSeen(r, o) ==
  RefSetOffset(r, o) =>
    \A j \in ClonesOf(refs[r]) : GetOffset(cells', pool'[j]) = o

(* C37: the offset of a lazy cell is shared by all handles to it: after    *)
(* set_offset(o) through any LazyItem clone, or through a LazyItemRef that *)
(* holds the cell, every LazyItem clone of that cell, clones taken out of  *)
(* the LazyItemRef earlier included, reports get_offset() = o.             *)
C37_OffsetShared ==
  [][/\ \A i \in 1 .. Len(pool), o \in OffsetArgs : LazySetOffsetSeen(i, o)
     /\ \A r \in 1 .. Len(refs), o \in OffsetArgs : RefSetOffsetSeen(r, o)]_vars

(* What holds of the offset: set_offset through a LazyItem clone reaches   *)
(* every clone and every handle holding one, and set_offset through a      *)
(* handle is reported by that handle.                                      *)
LazyOffsetShared ==
  [][/\ \A i \in 1 .. Len(pool), o \in OffsetArgs : LazySetOffsetSeen(i, o)
     /\ \A r \in 1 .. Len(refs), o \in OffsetArgs :
          RefSetOffset(r, o) => GetOffset(cells', refs'[r]) = o]_vars

(***************************************************************************)
(* The identity collections on their own: lazy items are made, some are    *)
(* given an offset as serialization gives it, and then clones of them are  *)
(* inserted into a LazyItemSet, an EagerLazyItemSet and a LazyItemMap.     *)
(* An entry of a set keeps the identity it was inserted under.             *)
(***************************************************************************)
(* The offset a cell is given, and the keys entries are inserted under. *)
SetOffsetArg == Some(7)

MapKeyArgs == {KeyInt(0), KeyInt(1)}

(* The lazy items at hand: the values made and what the handles hold. *)
SetItems == {pool[i] : i \in 1 .. Len(pool)} \cup {refs[r] : r \in 1 .. Len(refs)}

(* What the insert actions leave alone. *)
insertRest == <<nodes, cells, key, w, phase, root, budget, reg, loads, added,
                pool, refs, sharedVars, storeVars, apiVars>>

CallOf(coll, k, lz) == [coll |-> coll, key |-> k, id |-> LazyGetId(nodes, cells, lz)]

(* LazyItemSet::insert(item) *)
LazySetInsert(lz) ==
  /\ lset' = SetInsert(lset, [id |-> LazyGetId(nodes, cells, lz), eager |-> 0,
                              item |-> lz])
  /\ calls' = Append(calls, CallOf("lset", KeyInt(0), lz))
  /\ UNCHANGED <<nset, map, insertRest>>

(* EagerLazyItemSet::insert(EagerLazyItem(sim, item)) *)
EagerSetInsert(sim, lz) ==
  /\ nset' = SetInsert(nset, [id |-> LazyGetId(nodes, cells, lz), eager |-> sim,
                              item |-> lz])
  /\ calls' = Append(calls, CallOf("nset", KeyInt(0), lz))
  /\ UNCHANGED <<lset, map, insertRest>>

(* LazyItemMap::insert(key, value); add_version is insert(Int(0), value) *)
LazyMapInsert(k, lz) ==
  /\ map' = MapInsert(map, [key |-> k, item |-> lz])
  /\ calls' = Append(calls, CallOf("map", k, lz))
  /\ UNCHANGED <<lset, nset, insertRest>>

NextSet ==
  \/ calls = << >> /\ LazyNew
  \/ \E n \in NodeIds : calls = << >> /\ LazyFromItem(n)
  \/ /\ calls = << >>
     /\ Len(nodes) >= 2
     /\ nodes[2].prop = PropPending(<<0, 0>>)
     /\ SetPropLocation(2, PropLocationOf(2))
  \/ \E i \in 1 .. Len(pool) :
       calls = << >> /\ cells[pool[i].cell] = None /\ LazySetOffset(i, SetOffsetArg)
  \/ calls = << >> /\ refs = << >> /\ RefNewInvalid
  \/ \E r \in 1 .. Len(refs) : calls = << >> /\ ~refs[r].valid /\ RefSetOffset(r, SetOffsetArg)
  \/ \E lz \in SetItems : Len(calls) < MaxInserts /\ LazySetInsert(lz)
  \/ \E lz \in SetItems : Len(calls) < MaxInserts /\ EagerSetInsert(SimOf(Len(calls)), lz)
  \/ \E lz \in SetItems, k \in MapKeyArgs : Len(calls) < MaxInserts /\ LazyMapInsert(k, lz)

SpecSet == Init /\ [][NextSet]_vars

(* The identities of the first i insert calls on a collection, each once,  *)
(* in the order of their first call.                                       *)
RECURSIVE FirstIds(_, _)
FirstIds(coll, i) ==
  IF i = 0 THEN << >>
  ELSE IF calls[i].coll # coll
          \/ \E j \in 1 .. Len(FirstIds(coll, i - 1)) :
               FirstIds(coll, i - 1)[j] = calls[i].id
       THEN FirstIds(coll, i - 1)
       ELSE Append(FirstIds(coll, i - 1), calls[i].id)

(* The identities that iteration over a collection yields. *)
IdsOf(entries) ==
  [j \in 1 .. Len(entries) |-> LazyGetId(nodes, cells, entries[j].item)]

DedupOnInsert(coll, entries) == IdsOf(entries) = FirstIds(coll, Len(calls))

(* The claim for the two sets alone. *)
SetsDedupOnInsert == DedupOnInsert("lset", lset) /\ DedupOnInsert("nset", nset)

(* C12: after any sequence of inserts, a collection holds one entry per    *)
(* LazyItem identity inserted, in the order of first insertion: an insert  *)
(* under an identity already present adds nothing, an insert under a new   *)
(* identity adds one entry at the end.  For the LazyItemSet, the           *)
(* EagerLazyItemSet and the LazyItemMap.                                   *)
C12_DedupOnInsert == SetsDedupOnInsert /\ DedupOnInsert("map", map)

(* Node n has been written at offset o: a cell with n as its data has o as *)
(* its offset, as serialize leaves it.                                     *)
PersistedAt(n, o) ==
  \E lz \in SetItems : lz.valid /\ lz.data = n /\ cells[lz.cell] = Some(o)

(* A cell carrying only the file offset o; a cell carrying node n. *)
IsLazily(lz, o) == lz.valid /\ lz.data = 0 /\ cells[lz.cell] = Some(o)

IsByValue(lz, n) == lz.valid /\ lz.data = n

(* The entries of the lazy set that stand for node n, written at o. *)
SlotsOf(n, o) ==
  {j \in 1 .. Len(lset) : IsLazily(lset[j].item, o) \/ IsByValue(lset[j].item, n)}

(* C13: the cell that carries only the offset of a node and a cell that    *)
(* carries the node itself have the same LazyItem identity, and a set they *)
(* are both inserted into has one entry for the node.                      *)
C13_OneIdentity ==
  \A n \in NodeIds, o \in {7} :
    PersistedAt(n, o) =>
      /\ \A lz1, lz2 \in SetItems :
           (IsLazily(lz1, o) /\ IsByValue(lz2, n)) =>
             LazyGetId(nodes, cells, lz1) = LazyGetId(nodes, cells, lz2)
      /\ Cardinality(SlotsOf(n, o)) <= 1

(* The same for a cell by value that has taken the offset of the node. *)
OneIdentityWithOffset ==
  \A n \in NodeIds, o \in {7} :
    \A lz1, lz2 \in SetItems :
      (IsLazily(lz1, o) /\ IsByValue(lz2, n) /\ cells[lz2.cell] = Some(o)) =>
        /\ LazyGetId(nodes, cells, lz1) = LazyGetId(nodes, cells, lz2)
        /\ Cardinality({j \in 1 .. Len(lset) : lset[j].item \in {lz1, lz2}}) <= 1

(***************************************************************************)
(* A lazy set under concurrent inserts and iterations.  Its items field is *)
(* an Item (ArcShift) of an IdentitySet: arc.items is the sequence of the  *)
(* sets it has held, the last one current; a get gives the current one.    *)
(* insert is items.rcu(|set| { clone; insert; the clone }): the closure    *)
(* consumes the item, so it runs once, on the set that rcu read, and what  *)
(* it returns is stored.  iter is a get followed by a copy of the set read *)
(* into a Vec, entry by entry.  A thread is                                *)
(*   [op, at, item, vec, snap]: the call, the set it read (its place in    *)
(*   arc.items), the item to insert, the Vec copied so far, and the value  *)
(*   of the set when it was read.                                          *)
(* LazyItemSet and EagerLazyItemSet have the same code for both.           *)
(***************************************************************************)
snapRest == <<graphVars, cellVars, owners, written, committed, storeVars, apiVars>>

(* Node 2 has had its prop located, so the two nodes differ in identity. *)
InitSnap ==
  /\ nodes = << NewMergedNode(NodeAttrs[1][1], NodeAttrs[1][2]),
                [NewMergedNode(NodeAttrs[2][1], NodeAttrs[2][2])
                   EXCEPT !.prop = PropPending(PropLocationOf(2))] >>
  /\ cells = << None, None >>
  /\ map = << >>
  /\ key = KeyInt(0)
  /\ w = NewWriter
  /\ phase = "build"
  /\ root = NoRoot
  /\ budget = 0
  /\ reg = << >>
  /\ loads = << >>
  /\ added = << >>
  /\ CellsIdle
  /\ arc = [items |-> << << >> >>]
  /\ owners = << >>
  /\ written = << >>
  /\ committed = << >>
  /\ threads = << >>
  /\ StoreIdle
  /\ ApiIdle

(* ArcShift::get on a fresh clone: the place of the current value. *)
ArcCurrent(chain) == Len(chain)

(* An update that would write into the value that was read. *)
ArcUpdateInPlace(chain, at, new) == [chain EXCEPT ![at] = new]

(* ArcShift::update: the new value becomes the current one; the values     *)
(* read before stay as they are.                                           *)
ArcUpdate(chain, at, new) == Append(chain, new)

(* insert(item), up to where rcu has read the set *)
InsertGet(lz) ==
  /\ Len(threads) < MaxThreads
  /\ threads' = Append(threads, [op |-> "insert", at |-> ArcCurrent(arc.items),
                                 item |-> lz, vec |-> << >>,
                                 snap |-> arc.items[ArcCurrent(arc.items)]])
  /\ UNCHANGED <<arc, snapRest>>

(* insert(item), from the closure to the end of rcu *)
InsertUpdate(t) ==
  /\ threads[t].op = "insert"
  /\ arc' = [arc EXCEPT !.items =
               ArcUpdate(@, threads[t].at,
                         SetInsert(arc.items[threads[t].at],
                                   [id |-> LazyGetId(nodes, cells, threads[t].item),
                                    eager |-> 0, item |-> threads[t].item]))]
  /\ threads' = [threads EXCEPT ![t].op = "inserted"]
  /\ UNCHANGED snapRest

(* iter(), up to arc.get() *)
IterGet ==
  /\ Len(threads) < MaxThreads
  /\ threads' = Append(threads, [op |-> "iter", at |-> ArcCurrent(arc.items),
                                 item |-> Invalid, vec |-> << >>,
                                 snap |-> arc.items[ArcCurrent(arc.items)]])
  /\ UNCHANGED <<arc, snapRest>>

(* iter(): the next entry is cloned into the Vec *)
IterCopy(t) ==
  /\ threads[t].op = "iter"
  /\ Len(threads[t].vec) < Len(arc.items[threads[t].at])
  /\ threads' = [threads EXCEPT ![t].vec =
                   Append(@, arc.items[threads[t].at][Len(@) + 1])]
  /\ UNCHANGED <<arc, snapRest>>

(* iter(): the set read has been copied, the iterator is returned *)
IterReturn(t) ==
  /\ threads[t].op = "iter"
  /\ Len(threads[t].vec) >= Len(arc.items[threads[t].at])
  /\ threads' = [threads EXCEPT ![t].op = "iterator"]
  /\ UNCHANGED <<arc, snapRest>>

NextSnap ==
  \/ \E n \in NodeIds : InsertGet(CellOf(n))
  \/ \E t \in 1 .. Len(threads) : InsertUpdate(t)
  \/ IterGet
  \/ \E t \in 1 .. Len(threads) : IterCopy(t)
  \/ \E t \in 1 .. Len(threads) : IterReturn(t)

SpecSnap == InitSnap /\ [][NextSnap]_vars

(* C14: an iterator yields exactly the entries that the set held when      *)
(* iter() read it, in their order, whatever inserts run meanwhile or       *)
(* afterwards, and the set that a reader holds is never changed by a       *)
(* writer.                                                                 *)
C14_SnapshotReads ==
  \A t \in 1 .. Len(threads) :
    /\ arc.items[threads[t].at] = threads[t].snap
    /\ threads[t].op = "iter" =>
         /\ Len(threads[t].vec) <= Len(threads[t].snap)
         /\ threads[t].vec = SubSeq(threads[t].snap, 1, Len(threads[t].vec))
    /\ threads[t].op = "iterator" => threads[t].vec = threads[t].snap

(* C14's case: an iterator was taken of a set with an entry while an       *)
(* insert was under way, and the set has since been given another entry.   *)
C14_Witness ==
  \E t, u \in 1 .. Len(threads) :
    /\ threads[t].op = "iterator"
    /\ Len(threads[t].vec) = 1
    /\ threads[u].op = "inserted"
    /\ threads[u].at = threads[t].at
    /\ Len(arc.items[ArcCurrent(arc.items)]) = 2

(***************************************************************************)
(* One MergedNode and one LazyItemRef with their owners.  The fields prop, *)
(* neighbors.items, parent.item, child.item and versions.items of the node *)
(* and the item of the LazyItemRef are ArcShift cells; a clone of the node *)
(* or of the handle holds clones of them, which point where the cloned     *)
(* ones pointed (owners[o][c] is the place in arc[c]); every accessor      *)
(* clones the field and calls get on the clone.  persist_flag is an        *)
(* Arc<AtomicBool>, one bit for all clones.  The commit pass writes the    *)
(* node and clears the bit: committed is the state it wrote.               *)
(***************************************************************************)
NodeCells == {"prop", "neighbors", "parent", "child", "versions"}

SharedCells == NodeCells \cup {"ref"}

sharedRest == <<map, key, w, phase, root, budget, reg, loads, added,
                cellVars, threads, storeVars, apiVars>>

InitShared ==
  /\ nodes = << NewMergedNode(NodeAttrs[1][1], NodeAttrs[1][2]),
                [NewMergedNode(NodeAttrs[2][1], NodeAttrs[2][2])
                   EXCEPT !.prop = PropPending(PropLocationOf(2))] >>
  /\ cells = << None, None >>
  /\ map = << >>
  /\ key = KeyInt(0)
  /\ w = NewWriter
  /\ phase = "build"
  /\ root = NoRoot
  /\ budget = 0
  /\ reg = << >>
  /\ loads = << >>
  /\ added = << >>
  /\ CellsIdle
  /\ arc = [prop |-> << PropPending(<<0, 0>>) >>, neighbors |-> << << >> >>,
            parent |-> << Invalid >>, child |-> << Invalid >>,
            versions |-> << << >> >>, ref |-> << Invalid >>,
            persist_flag |-> TRUE]
  /\ owners = << [c \in SharedCells |-> 1] >>
  /\ written = [prop |-> PropPending(<<0, 0>>), neighbors |-> << >>,
                parent |-> Invalid, child |-> Invalid, versions |-> << >>,
                ref |-> Invalid]
  /\ committed = << >>
  /\ threads = << >>
  /\ StoreIdle
  /\ ApiIdle

(* A read that would not go past the value its owner points at. *)
ReadStale(chain, at) == chain[at]

(* let mut arc = self.field.clone(); arc.get(): the current value *)
ReadOf(chain, at) == chain[ArcCurrent(chain)]

(* The writes made so far. *)
WritesMade ==
  Len(arc.prop) + Len(arc.neighbors) + Len(arc.parent) + Len(arc.child)
    + Len(arc.versions) + Len(arc.ref) - 6

(* The value v is stored in cell c through owner o. *)
Stored(o, c, v) ==
  /\ WritesMade < MaxWrites
  /\ arc' = [arc EXCEPT ![c] = ArcUpdate(@, owners[o][c], v)]
  /\ written' = [written EXCEPT ![c] = v]

(* node.clone(), lazy_ref.clone() *)
CloneOwner(o) ==
  /\ Len(owners) < MaxOwners
  /\ owners' = Append(owners, owners[o])
  /\ UNCHANGED <<nodes, cells, arc, written, committed, sharedRest>>

(* MergedNode::set_parent through owner o *)
OwnSetParent(o, lz) ==
  /\ Stored(o, "parent", lz)
  /\ UNCHANGED <<nodes, cells, owners, committed, sharedRest>>

(* MergedNode::set_child through owner o *)
OwnSetChild(o, lz) ==
  /\ Stored(o, "child", lz)
  /\ UNCHANGED <<nodes, cells, owners, committed, sharedRest>>

(* MergedNode::add_ready_neighbor(lazy item of node m, sim) through o *)
OwnAddReadyNeighbor(o, m, sim) ==
  /\ Stored(o, "neighbors",
            SetInsert(ReadOf(arc.neighbors, owners[o].neighbors),
                      [id |-> LazyGetId(nodes, cells, CellOf(m)), eager |-> sim,
                       item |-> CellOf(m)]))
  /\ UNCHANGED <<nodes, cells, owners, committed, sharedRest>>

(* MergedNode::add_version(node m) through owner o *)
OwnAddVersion(o, m) ==
  /\ cells' = Append(cells, None)
  /\ Stored(o, "versions",
            MapInsert(ReadOf(arc.versions, owners[o].versions),
                      [key |-> VersionKey(m), item |-> FreshCell(m)]))
  /\ UNCHANGED <<nodes, owners, committed, sharedRest>>

(* MergedNode::set_prop_location, set_prop_pending through owner o *)
OwnSetPropPending(o, loc) ==
  /\ Stored(o, "prop", PropPending(loc))
  /\ UNCHANGED <<nodes, cells, owners, committed, sharedRest>>

(* MergedNode::set_prop_ready through owner o *)
OwnSetPropReady(o, vid, loc) ==
  /\ Stored(o, "prop", PropReady(vid, loc))
  /\ UNCHANGED <<nodes, cells, owners, committed, sharedRest>>

(* LazyItemRef::set_data(MergedNode::new(..)) through owner o *)
OwnRefSetData(o) ==
  /\ Len(nodes) < MaxNodes
  /\ nodes' = Append(nodes, NextMergedNode)
  /\ cells' = IF ReadOf(arc.ref, owners[o].ref).valid THEN cells
              ELSE Append(cells, None)
  /\ Stored(o, "ref",
            Valid(Len(nodes) + 1,
                  IF ReadOf(arc.ref, owners[o].ref).valid
                  THEN ReadOf(arc.ref, owners[o].ref).cell ELSE Len(cells) + 1))
  /\ UNCHANGED <<owners, committed, sharedRest>>

(* LazyItemRef::set_offset(off) through owner o *)
OwnRefSetOffset(o, off) ==
  /\ cells' = Append(cells, off)
  /\ Stored(o, "ref",
            Valid(IF ReadOf(arc.ref, owners[o].ref).valid
                  THEN ReadOf(arc.ref, owners[o].ref).data ELSE 0,
                  Len(cells) + 1))
  /\ UNCHANGED <<nodes, owners, committed, sharedRest>>

(* The state of the node as owner o reads it. *)
NodeState(o) == [c \in NodeCells |-> ReadOf(arc[c], owners[o][c])]

(* SyncPersist::set_persistence(true) through owner o: a caller marks the *)
(* node for the next commit.                                               *)
SetPersistence(o) ==
  /\ ~arc.persist_flag
  /\ arc' = [arc EXCEPT !.persist_flag = TRUE]
  /\ UNCHANGED <<nodes, cells, owners, written, committed, sharedRest>>

(* The commit pass has written the node as owner o reads it, and calls     *)
(* set_persistence(false).                                                 *)
Persisted(o) ==
  /\ arc.persist_flag
  /\ arc' = [arc EXCEPT !.persist_flag = FALSE]
  /\ committed' = << NodeState(o) >>
  /\ UNCHANGED <<nodes, cells, owners, written, sharedRest>>

NextShared ==
  \/ \E o \in 1 .. Len(owners) : CloneOwner(o)
  \/ \E o \in 1 .. Len(owners), n \in NodeIds : OwnSetParent(o, CellOf(n))
  \/ \E o \in 1 .. Len(owners), n \in NodeIds : OwnSetChild(o, CellOf(n))
  \/ \E o \in 1 .. Len(owners), m \in NodeIds : OwnAddReadyNeighbor(o, m, SimOf(m))
  \/ \E o \in 1 .. Len(owners), m \in NodeIds : OwnAddVersion(o, m)
  \/ \E o \in 1 .. Len(owners) : OwnSetPropPending(o, PropLocationOf(1))
  \/ \E o \in 1 .. Len(owners), loc \in {None, Some(PropLocationOf(1))} :
       OwnSetPropReady(o, 5, loc)
  \/ \E o \in 1 .. Len(owners) : OwnRefSetData(o)
  \/ \E o \in 1 .. Len(owners), off \in OffsetArgs : OwnRefSetOffset(o, off)
  \/ \E o \in 1 .. Len(owners) : SetPersistence(o)
  \/ \E o \in 1 .. Len(owners) : Persisted(o)

SpecShared == InitShared /\ [][NextShared]_vars

(* C15: once a write through one owner of a cell has completed, a read of  *)
(* the cell through any owner, the others included, gives what the write   *)
(* stored.                                                                 *)
C15_SharedCells ==
  \A o \in 1 .. Len(owners), c \in SharedCells :
    ReadOf(arc[c], owners[o][c]) = written[c]

(* C15's case: with two owners, a neighbor, a parent and an offset of the  *)
(* handle have been written.                                               *)
C15_Witness ==
  /\ Len(owners) = 2
  /\ Len(arc.neighbors) = 2 /\ Len(written.neighbors) = 1
  /\ Len(arc.parent) = 2 /\ written.parent.valid
  /\ Len(arc.ref) = 2 /\ written.ref.valid

(* needs_persistence() *)
NeedsPersistence == arc.persist_flag

(* C17: whenever the state of the node in memory differs from the state    *)
(* last committed, needs_persistence() is true; so it is after a mutation  *)
(* of a node whose flag the commit had cleared.                            *)
C17_DirtyTracksDivergence ==
  \A o \in 1 .. Len(owners) :
    (committed = << >> \/ NodeState(o) # committed[1]) => NeedsPersistence

(***************************************************************************)
(* The store of src/api_service.rs: init_vector_store, then run_upload     *)
(* calls one after another, with readers that resolve current_version at   *)
(* any time.  The tables are LMDB databases: a read-write transaction      *)
(* holds the writer lock from begin to commit or abort.                    *)
(*   db     [count_unindexed, embeddings, writer, commits, uploads]:       *)
(*          the counter, the embeddings table (key i holds                 *)
(*          embeddings[i]), the thread that holds the writer lock (0:      *)
(*          none), the versions stored as current so far, and the          *)
(*          run_upload calls that have returned                            *)
(*   files  version -> [records, buffered, flushes, failed, late]: the     *)
(*          records in <version>.index, those still in the buffered        *)
(*          writer, the flushes made, whether a node of the version could  *)
(*          not be written, and whether the file was written to after its  *)
(*          version had become current                                     *)
(*   cur    current_version: None or Some(version)                         *)
(*   up     the call in progress:                                          *)
(*          [pc, left, thr, seen, keys, count0, emb0, countRead,           *)
(*           threshold, batch_size, indexed, new_ver, failed]; failed is   *)
(*          the step of the call that failed: "index", "commit" or "none"  *)
(*   obs    the last resolution of a reader: [ver, file]                   *)
(*   ret    [op, name, size, max_cache_level, result]: the last call, the  *)
(*          arguments of init and what the caller got: "Ok", an error,     *)
(*          "unit" for a function that returns (), or "panic"              *)
(*   props  [opened, len, writes, loc]: prop.data, the (offset, length)    *)
(*          each write to it returned, and the location each node holds    *)
(* The nodes that init builds are on the heap: node l + 1 is the node of   *)
(* level l, with two cells of its own (lazy_node and nn); root.n is the    *)
(* node that the store's root holds.                                       *)
(***************************************************************************)
storeRest == <<map, key, w, phase, budget, reg, loads, added,
               cellVars, sharedVars, env, callers, base>>

(* The nodes of the store, their cells and the store's root. *)
storeGraph == <<nodes, cells, root>>

NoFile == [records |-> 0, buffered |-> 0, flushes |-> 0, failed |-> FALSE,
           late |-> FALSE]

NoCall == [pc |-> "none", left |-> 0, thr |-> << >>, seen |-> << >>,
           keys |-> << >>, count0 |-> 0, emb0 |-> 0, countRead |-> 0,
           threshold |-> 0, batch_size |-> 0, indexed |-> FALSE, new_ver |-> 0,
           failed |-> "none"]

NoReturn == [op |-> "none", name |-> "", size |-> 0, max_cache_level |-> 0,
             result |-> "none"]

InitStore ==
  /\ GraphIdle
  /\ CellsIdle
  /\ SharedIdle
  /\ env = << >>
  /\ callers = << >>
  /\ base = 0
  /\ ret = NoReturn
  /\ props = [opened |-> FALSE, len |-> 0, writes |-> << >>, loc |-> << >>]
  /\ db = [count_unindexed |-> 0, embeddings |-> << >>, writer |-> 0,
           commits |-> << >>, uploads |-> 0]
  /\ files = << >>
  /\ cur = None
  /\ up = NoCall
  /\ obs = << >>

IsCommitted(v) == \E i \in 1 .. Len(db.commits) : db.commits[i] = v

(* The store is in vector_store_map. *)
StoreRegistered ==
  up.pc \notin {"none", "init_build", "init_persist", "init_flushed", "init_failed"}

(* OpenOptions::new().create(true).append(true).open("<v>.index") and      *)
(* CustomBufferedWriter::new: an existing file is kept.                    *)
OpenAppend(v) == IF v \in DOMAIN files THEN files ELSE (v :> NoFile) @@ files

(* A node record goes into the writer of <v>.index. *)
WriteRecord(fs, v) ==
  [fs EXCEPT ![v].buffered = @ + 1, ![v].late = @ \/ IsCommitted(v)]

(* writer.flush() *)
Flush(fs, v) ==
  [fs EXCEPT ![v].records = @ + fs[v].buffered, ![v].buffered = 0,
             ![v].flushes = @ + 1]

(* An init that would take every name. *)
NameNeverEmpty(name) == FALSE

(* name.is_empty() *)
NameIsEmpty(name) == name = ""

(* init_vector_store, lines 31-33: an empty name is refused. *)
InitRefused(name, size, levels) ==
  /\ up.pc \in {"none", "idle"}
  /\ NameIsEmpty(name)
  /\ ret' = [op |-> "init", name |-> name, size |-> size,
             max_cache_level |-> levels - 1, result |-> "InvalidParams"]
  /\ UNCHANGED <<db, files, cur, up, obs, props, storeGraph, storeRest>>

(* init_vector_store, lines 31-72: the name is not empty; the vector of    *)
(* size numbers is quantized, prop.data and 0.index are opened.            *)
InitOpen(name, size, levels) ==
  /\ up.pc = "none"
  /\ ~NameIsEmpty(name)
  /\ files' = OpenAppend(0)
  /\ props' = [props EXCEPT !.opened = TRUE]
  /\ up' = [up EXCEPT !.pc = "init_build", !.left = levels]
  /\ ret' = [op |-> "init", name |-> name, size |-> size,
             max_cache_level |-> levels - 1, result |-> "none"]
  /\ UNCHANGED <<db, cur, obs, storeGraph, storeRest>>

(* The bytes of a serialized NodeProp: its id and its size values. *)
PropBytes(size) == 4 + size

(* init_vector_store, lines 79-83: NodeProp { .., location: Some((0, 0)) } *)
LocationOfNew(l, at) == Some(<<0, 0>>)

(* init_vector_store, lines 84-93: the node of level l, its prop           *)
(* Ready(prop) with the id VectorId::Int(-1).                              *)
LevelNode(l) ==
  [version_id |-> 0, hnsw_level |-> l, prop |-> PropReady(-1, Some(<<0, 0>>)),
   neighbors |-> << >>, parent |-> Invalid, child |-> Invalid,
   versions |-> << >>, persist_flag |-> TRUE]

(* A loop that would link a node to the node of the level before only on   *)
(* one side.                                                               *)
LinkLevelsOneWay(ns, cs, n) ==
  IF n = 1 THEN ns
  ELSE [ns EXCEPT ![n].parent = Valid(n - 1, Len(cs))]

(* init_vector_store, lines 95-103: cs are the cells before those of node  *)
(* n; prev, the nn of node n - 1, is the last of them, and lazy_node and   *)
(* nn of node n are the next two.  When prev has data the node's parent is *)
(* prev's item and prev's child is lazy_node.                              *)
LinkLevels(ns, cs, n) ==
  IF n = 1 THEN ns
  ELSE [ns EXCEPT ![n].parent = Valid(n - 1, Len(cs)),
                  ![n - 1].child = Valid(n, Len(cs) + 1)]

(* init_vector_store, lines 78-113: the node of the next level is made     *)
(* and linked; for level 0 it becomes the root, write_prop_to_file appends *)
(* the prop to prop.data and returns where, and set_prop_ready(prop)       *)
(* follows.                                                                *)
InitNode ==
  /\ up.pc = "init_build"
  /\ nodes' = LinkLevels(Append(nodes, LevelNode(Len(nodes))), cells, Len(nodes) + 1)
  /\ cells' = cells \o <<None, None>>
  /\ root' = IF Len(nodes) = 0 THEN [NoRoot EXCEPT !.kind = "store", !.n = 1] ELSE root
  /\ props' = [props EXCEPT
       !.len = IF Len(props.loc) = 0 THEN @ + PropBytes(ret.size) ELSE @,
       !.writes = IF Len(props.loc) = 0
                  THEN Append(@, [level |-> 0, at |-> <<props.len, PropBytes(ret.size)>>])
                  ELSE @,
       !.loc = Append(@, LocationOfNew(Len(props.loc), <<props.len, PropBytes(ret.size)>>))]
  /\ up' = IF up.left = 1
           THEN [up EXCEPT !.pc = "init_persist", !.left = Len(props.loc) + 1]
           ELSE [up EXCEPT !.left = @ - 1]
  /\ UNCHANGED <<db, files, cur, obs, ret, storeRest>>

(* persist_node_update_loc on node n: the node is written as it is and is  *)
(* no longer dirty.                                                        *)
PersistNode(ns, n) == [ns EXCEPT ![n].persist_flag = FALSE]

(* init_vector_store, lines 115-122: persist_node_update_loc on the next   *)
(* node; an Err is printed and the loop goes on.                           *)
InitPersist(ok) ==
  /\ up.pc = "init_persist"
  /\ up.left > 0
  /\ files' = IF ok THEN WriteRecord(files, 0) ELSE [files EXCEPT ![0].failed = TRUE]
  /\ nodes' = IF ok THEN PersistNode(nodes, Len(nodes) - up.left + 1) ELSE nodes
  /\ up' = [up EXCEPT !.left = @ - 1]
  /\ UNCHANGED <<db, cur, obs, ret, props, cells, root, storeRest>>

(* init_vector_store, lines 124-126 *)
InitFlush ==
  /\ up.pc = "init_persist"
  /\ up.left = 0
  /\ files' = Flush(files, 0)
  /\ up' = [up EXCEPT !.pc = "init_flushed"]
  /\ UNCHANGED <<db, cur, obs, ret, props, storeGraph, storeRest>>

(* init_vector_store, lines 132-164: get_app_env()? and create_db(..)?     *)
(* return their Err; otherwise the store, its current_version None, is     *)
(* put into vector_store_map.                                              *)
InitPublish(ok) ==
  /\ up.pc = "init_flushed"
  /\ up' = [up EXCEPT !.pc = IF ok THEN "init_published" ELSE "init_failed"]
  /\ ret' = IF ok THEN ret ELSE [ret EXCEPT !.result = "DatabaseError"]
  /\ UNCHANGED <<db, files, cur, obs, props, storeGraph, storeRest>>

(* init_vector_store, lines 166-170: store_current_version(.., 0),         *)
(* set_current_version(Some(version_hash)) and Ok(()).                     *)
InitSetVersion ==
  /\ up.pc = "init_published"
  /\ db' = [db EXCEPT !.commits = Append(@, 0)]
  /\ cur' = Some(0)
  /\ up' = [up EXCEPT !.pc = "idle"]
  /\ ret' = [ret EXCEPT !.result = "Ok"]
  /\ UNCHANGED <<files, obs, props, storeGraph, storeRest>>

(* A reader takes the store from vector_store_map and calls                *)
(* get_current_version: what it resolves to, and the file as it is then.   *)
ResolveVersion ==
  /\ StoreRegistered
  /\ obs' = << [ver |-> cur, file |-> IF cur = None THEN NoFile ELSE files[cur[1]]] >>
  /\ UNCHANGED <<db, files, cur, up, ret, props, storeGraph, storeRest>>

(* run_upload(vec_store, vecxx, config) is called with n embeddings. *)
UploadStart(n, threshold, batch_size) ==
  /\ up.pc = "idle"
  /\ db.uploads < MaxUploads
  /\ up' = [NoCall EXCEPT !.pc = "insert",
                          !.thr = [i \in 1 .. n |-> "start"],
                          !.seen = [i \in 1 .. n |-> 0],
                          !.keys = [i \in 1 .. n |-> 0],
                          !.count0 = db.count_unindexed,
                          !.emb0 = Len(db.embeddings),
                          !.threshold = threshold,
                          !.batch_size = batch_size]
  /\ ret' = [ret EXCEPT !.op = "upload", !.result = "none"]
  /\ UNCHANGED <<db, files, cur, obs, props, storeGraph, storeRest>>

(* A transaction that would begin without the writer lock. *)
CanBeginUnlocked(d) == TRUE

(* env.begin_rw_txn(): the writer lock is free *)
CanBeginTxn(d) == d.writer = 0

(* insert_embedding in thread i of the parallel iterator: the transaction  *)
(* begins and reads count_unindexed.                                       *)
InsertBegin(i) ==
  /\ up.pc = "insert"
  /\ up.thr[i] = "start"
  /\ CanBeginTxn(db)
  /\ db' = [db EXCEPT !.writer = i]
  /\ up' = [up EXCEPT !.thr[i] = "txn", !.seen[i] = db.count_unindexed]
  /\ UNCHANGED <<files, cur, obs, ret, props, storeGraph, storeRest>>

(* insert_embedding in thread i: the embedding is put under a new key, the *)
(* counter is put one higher than it was read, the transaction commits.    *)
InsertCommit(i) ==
  /\ up.pc = "insert"
  /\ up.thr[i] = "txn"
  /\ db' = [db EXCEPT !.embeddings = Append(@, <<db.uploads, i>>),
                      !.count_unindexed = up.seen[i] + 1,
                      !.writer = 0]
  /\ up' = [up EXCEPT !.thr[i] = "done", !.keys[i] = Len(db.embeddings) + 1]
  /\ UNCHANGED <<files, cur, obs, ret, props, storeGraph, storeRest>>

(* run_upload, lines 191-207: for_each has returned; count_unindexed is    *)
(* read in a transaction that is then aborted.                             *)
ReadCount ==
  /\ up.pc = "insert"
  /\ \A i \in 1 .. Len(up.thr) : up.thr[i] = "done"
  /\ CanBeginTxn(db)
  /\ up' = [up EXCEPT !.pc = "decide", !.countRead = db.count_unindexed]
  /\ UNCHANGED <<db, files, cur, obs, ret, props, storeGraph, storeRest>>

(* An indexing pass that would need more than the threshold. *)
ShouldIndexAbove(count_unindexed, threshold) == count_unindexed > threshold

(* run_upload, line 209 *)
ShouldIndex(count_unindexed, threshold) == count_unindexed >= threshold

(* run_upload, lines 209-211: index_embeddings drains up to batch_size     *)
(* embeddings into the graph and the nodes it changes are left to write;   *)
(* when it returns Err, expect panics and the call unwinds.                *)
IndexOrSkip(ok) ==
  /\ up.pc = "decide"
  /\ IF ShouldIndex(up.countRead, up.threshold)
     THEN IF ok
          THEN /\ db' = [db EXCEPT !.count_unindexed = @ - Min(@, up.batch_size)]
               /\ up' = [up EXCEPT !.pc = "version", !.indexed = TRUE,
                                   !.left = Min(db.count_unindexed, up.batch_size)]
               /\ ret' = ret
          ELSE /\ db' = [db EXCEPT !.uploads = @ + 1]
               /\ up' = [up EXCEPT !.pc = "idle", !.indexed = TRUE, !.failed = "index"]
               /\ ret' = [ret EXCEPT !.result = "panic"]
     ELSE /\ ok
          /\ db' = db
          /\ up' = [up EXCEPT !.pc = "version", !.indexed = FALSE]
          /\ ret' = ret
  /\ UNCHANGED <<files, cur, obs, props, storeGraph, storeRest>>

(* A commit that would write the file of the current version. *)
SameVer(ver) == ver

(* run_upload, line 217 *)
NewVer(ver) == ver + 1

(* run_upload, lines 214-232: the new version is the current one plus one  *)
(* and its file is opened.                                                 *)
OpenVersion ==
  /\ up.pc = "version"
  /\ cur # None
  /\ files' = OpenAppend(NewVer(cur[1]))
  /\ up' = [up EXCEPT !.pc = "commit", !.new_ver = NewVer(cur[1])]
  /\ UNCHANGED <<db, cur, obs, ret, props, storeGraph, storeRest>>

(* auto_commit_transaction: the next dirty node is written; on an Err the  *)
(* call returns it, run_upload prints it and returns, and what the writer  *)
(* held is dropped.                                                        *)
CommitWrite(ok) ==
  /\ up.pc = "commit"
  /\ up.left > 0
  /\ IF ok
     THEN /\ files' = WriteRecord(files, up.new_ver)
          /\ up' = [up EXCEPT !.left = @ - 1]
          /\ db' = db
          /\ ret' = ret
     ELSE /\ files' = [files EXCEPT ![up.new_ver].buffered = 0]
          /\ up' = [up EXCEPT !.pc = "idle", !.left = 0, !.failed = "commit"]
          /\ db' = [db EXCEPT !.uploads = @ + 1]
          /\ ret' = [ret EXCEPT !.result = "unit"]
  /\ UNCHANGED <<cur, obs, props, storeGraph, storeRest>>

(* auto_commit_transaction: every dirty node is written; the writer is     *)
(* flushed.                                                                *)
CommitFlush ==
  /\ up.pc = "commit"
  /\ up.left = 0
  /\ files' = Flush(files, up.new_ver)
  /\ up' = [up EXCEPT !.pc = "flushed"]
  /\ UNCHANGED <<db, cur, obs, ret, props, storeGraph, storeRest>>

(* auto_commit_transaction: current_version becomes the new version, the   *)
(* commit point; run_upload returns.                                       *)
CommitBump ==
  /\ up.pc = "flushed"
  /\ cur' = Some(up.new_ver)
  /\ db' = [db EXCEPT !.commits = Append(@, up.new_ver), !.uploads = @ + 1]
  /\ up' = [up EXCEPT !.pc = "idle"]
  /\ ret' = [ret EXCEPT !.result = "unit"]
  /\ UNCHANGED <<files, obs, props, storeGraph, storeRest>>

(* The names and the dimensions that init_vector_store is called with. *)
StoreNames == {"", "s"}

StoreSizes == {0, 32}

NextStore ==
  \/ \E name \in StoreNames, size \in StoreSizes, levels \in 1 .. MaxLevels :
       InitRefused(name, size, levels)
  \/ \E name \in StoreNames, size \in StoreSizes, levels \in 1 .. MaxLevels :
       InitOpen(name, size, levels)
  \/ InitNode
  \/ \E ok \in BOOLEAN : InitPersist(ok)
  \/ InitFlush
  \/ \E ok \in BOOLEAN : InitPublish(ok)
  \/ InitSetVersion
  \/ ResolveVersion
  \/ \E n \in 1 .. MaxBatch, threshold \in 1 .. MaxThreshold, batch_size \in 1 .. MaxBatch :
       UploadStart(n, threshold, batch_size)
  \/ \E i \in 1 .. Len(up.thr) : InsertBegin(i)
  \/ \E i \in 1 .. Len(up.thr) : InsertCommit(i)
  \/ ReadCount
  \/ \E ok \in BOOLEAN : IndexOrSkip(ok)
  \/ OpenVersion
  \/ \E ok \in BOOLEAN : CommitWrite(ok)
  \/ CommitFlush
  \/ CommitBump

SpecStore == InitStore /\ [][NextStore]_vars

(* writer.flush() was called on the file and nothing is left in a writer. *)
Flushed(f) == f.flushes > 0 /\ f.buffered = 0

(* Every node of the version is in the file. *)
CompletelyWritten(f) == ~f.failed

(* Whatever the outcome of the writes, current_version is set to a version *)
(* only after that version's file has been flushed.                        *)
FlushedBeforeVisible ==
  /\ cur # None => Flushed(files[cur[1]])
  /\ \A i \in 1 .. Len(obs) : obs[i].ver # None => Flushed(obs[i].file)

(* C16: a reader that resolves current_version finds a version whose index *)
(* file was completely written and flushed.                                *)
C16_CommitVisibility ==
  \A i \in 1 .. Len(obs) :
    obs[i].ver # None => Flushed(obs[i].file) /\ CompletelyWritten(obs[i].file)

(* The call in progress, or the last one, has passed line 211. *)
Decided == up.pc \in {"version", "commit", "flushed", "idle"} /\ Len(up.thr) > 0

(* C18: run_upload runs index_embeddings if and only if the count_unindexed *)
(* it read is at least config.threshold, and it read the counter after all  *)
(* embeddings of the batch had been inserted.                               *)
C18_IndexAtThreshold ==
  Decided =>
    /\ up.indexed <=> up.countRead >= up.threshold
    /\ \A i \in 1 .. Len(up.thr) : up.thr[i] = "done"

(* The counter read equals the threshold and the batch was indexed. *)
C18_Witness ==
  /\ Decided
  /\ up.countRead = up.threshold
  /\ up.indexed
  /\ Len(up.thr) = MaxBatch

(* The threads of the batch whose insert_embedding has returned. *)
Inserted == {i \in 1 .. Len(up.thr) : up.thr[i] = "done"}

(* C19: while the embeddings of a batch are inserted in parallel, and once  *)
(* all N are, count_unindexed is higher than before the batch by exactly    *)
(* the number of inserts made, and every inserted embedding is stored under *)
(* its own new key.                                                         *)
C19_ParallelInserts ==
  up.pc \in {"insert", "decide"} =>
    /\ db.count_unindexed = up.count0 + Cardinality(Inserted)
    /\ Len(db.embeddings) = up.emb0 + Cardinality(Inserted)
    /\ \A i \in Inserted :
         /\ up.keys[i] > up.emb0
         /\ up.keys[i] <= Len(db.embeddings)
         /\ db.embeddings[up.keys[i]] = <<db.uploads, i>>
         /\ \A j \in Inserted : up.keys[j] = up.keys[i] => j = i

(* A full batch is in, on top of a counter that was not zero, and the      *)
(* second thread committed before the first.                               *)
C19_Witness ==
  /\ up.pc = "decide"
  /\ Len(up.thr) = MaxBatch
  /\ up.count0 > 0
  /\ up.keys[2] < up.keys[1]
  /\ db.count_unindexed = up.count0 + MaxBatch

ErrResults == {"InvalidParams", "DatabaseError"}

(* The embeddings of the batch of the call that has just returned are in   *)
(* the embeddings table.                                                   *)
BatchStored ==
  \A i \in 1 .. Len(up.thr) :
    /\ up.keys[i] \in 1 .. Len(db.embeddings)
    /\ db.embeddings[up.keys[i]] = <<db.uploads - 1, i>>

(* When the indexing pass of an upload fails, every embedding of the batch *)
(* is already stored.                                                      *)
StoredWhenIndexingFails == up.failed = "index" => BatchStored

(* C21: when the indexing pass of an upload fails, the caller of the       *)
(* upload gets an error and every embedding of the batch is stored.        *)
C21_IndexFailureSurfaced ==
  (up.failed = "index" /\ ret.op = "upload") =>
    /\ ret.result \in ErrResults
    /\ BatchStored

(* C22: when a node cannot be persisted during init, or the commit of an   *)
(* upload fails, the call returns an error; init then returns no Ok and    *)
(* stores no current version.                                              *)
C22_PersistFailureSurfaced ==
  /\ (/\ ret.op = "init"
      /\ ret.name # ""
      /\ ret.result # "none"
      /\ 0 \in DOMAIN files
      /\ files[0].failed) => (ret.result \in ErrResults /\ cur = None)
  /\ (/\ ret.op = "upload"
      /\ ret.result # "none"
      /\ up.failed = "commit") => ret.result \in ErrResults

(* C23: init with an empty name returns InvalidParams and changes nothing: *)
(* no file is opened or written, no store is registered, no current        *)
(* version is stored.                                                      *)
C23_EmptyNameRefused ==
  [][(ret' # ret /\ ret'.op = "init" /\ ret'.name = "") =>
       /\ ret'.result = "InvalidParams"
       /\ UNCHANGED <<db, files, cur, up, obs, props>>]_vars

(* init with an empty name has returned InvalidParams and there is no      *)
(* file, no store and no version.                                          *)
C23_Witness ==
  /\ ret.op = "init"
  /\ ret.name = ""
  /\ ret.result = "InvalidParams"
  /\ files = << >>
  /\ ~props.opened
  /\ ~StoreRegistered
  /\ cur = None

(* C24: init with dimension zero returns InvalidParams and creates no      *)
(* store.                                                                  *)
C24_ZeroDimensionRefused ==
  (ret.op = "init" /\ ret.size = 0 /\ ret.result # "none") =>
    /\ ret.result = "InvalidParams"
    /\ ret.name # "" => ~StoreRegistered

(* MergedNode::get_prop_location of the node of level l *)
GetPropLocation(l) == props.loc[l + 1]

(* C28: once a node's property has been written to prop.data, the node's   *)
(* get_prop_location() is the (offset, length) that the write returned.    *)
C28_PropLocationRecorded ==
  \A i \in 1 .. Len(props.writes) :
    GetPropLocation(props.writes[i].level) = Some(props.writes[i].at)

(***************************************************************************)
(* Damaged files: a map or a key is serialized, the file is then cut short *)
(* or overwritten in one place, and the map or the key is deserialized at  *)
(* the offset that serialize returned.                                     *)
(***************************************************************************)
CorruptKeys == {KeyInt(1), KeyString(<<65, 66>>)}

InitCorrupt ==
  /\ nodes = << >>
  /\ cells = << >>
  /\ map = << >>
  /\ key \in CorruptKeys
  /\ w \in {WriterAt(n) : n \in {0, MaxPad}}
  /\ phase = "build"
  /\ root = NoRoot
  /\ budget = 0
  /\ reg = << >>
  /\ loads = << >>
  /\ added = << >>
  /\ CellsIdle
  /\ SharedIdle
  /\ StoreIdle
  /\ ApiIdle

corruptRest == <<cellVars, sharedVars, storeVars, apiVars, nodes, cells, map, key,
                 root, budget, reg, loads, added>>

(* The file loses its end: n bytes are left. *)
Truncate(n) ==
  /\ phase = "written"
  /\ root.ok
  /\ loads = << >>
  /\ n < Len(w.buf)
  /\ w' = [buf |-> SubSeq(w.buf, 1, n), pos |-> n]
  /\ phase' = "damaged"
  /\ UNCHANGED corruptRest

(* Four bytes at p are overwritten with an offset beyond the file. *)
PokeOffset(p) ==
  /\ phase = "written"
  /\ root.ok
  /\ loads = << >>
  /\ p + 4 <= Len(w.buf)
  /\ w' = [w EXCEPT !.buf = [i \in 1 .. Len(w.buf) |->
                               IF i > p /\ i <= p + 4
                               THEN U32Bytes(Len(w.buf) + OutOfFile)[i - p]
                               ELSE w.buf[i]]]
  /\ phase' = "damaged"
  /\ UNCHANGED corruptRest

(* Four bytes at p are overwritten with the offset of the map's first      *)
(* chunk: where p is the place of a chunk's link, the chain of chunks      *)
(* leads back to its beginning.                                            *)
PokeLink(p) ==
  /\ phase = "written"
  /\ root.ok
  /\ root.kind = "map"
  /\ loads = << >>
  /\ p + 4 <= Len(w.buf)
  /\ w' = [w EXCEPT !.buf = [i \in 1 .. Len(w.buf) |->
                               IF i > p /\ i <= p + 4
                               THEN U32Bytes(root.off)[i - p]
                               ELSE w.buf[i]]]
  /\ phase' = "damaged"
  /\ UNCHANGED corruptRest

(* The byte at p is overwritten with 0xFF, which no UTF-8 string holds. *)
PokeByte(p) ==
  /\ phase = "written"
  /\ root.ok
  /\ loads = << >>
  /\ p < Len(w.buf)
  /\ w' = [w EXCEPT !.buf[p + 1] = 255]
  /\ phase' = "damaged"
  /\ UNCHANGED corruptRest

(* LazyItemMap::deserialize, or IdentityMapKey::deserialize, on the        *)
(* damaged file at the offset serialize returned.                          *)
LoadDamaged ==
  /\ phase = "damaged"
  /\ loads = << >>
  /\ IF root.kind = "map"
     THEN Loaded("map", root.off, MapLoaded(DesMap(w.buf, NewDs, root.off, budget)))
     ELSE KeyDeserialized(KeyDeserialize(w.buf, root.off))

NextCorrupt ==
  \/ Len(map) < MaxDamagedEntries /\ InsertData(MapKeyAt(Len(map) + 1), Len(map) + 1, 2)
  \/ Len(map) = 2 /\ InsertInvalid(MapKeyAt(Len(map) + 1))
  \/ \E b \in 0 .. 1 : map # << >> /\ SerializeMap(b)
  \/ map = << >> /\ SerializeKey
  \/ \E n \in 0 .. Len(w.buf) : Truncate(n)
  \/ \E p \in 0 .. Len(w.buf) : PokeOffset(p)
  \/ \E p \in 0 .. Len(w.buf) : PokeByte(p)
  \/ \E p \in 0 .. Len(w.buf) : PokeLink(p)
  \/ LoadDamaged

SpecCorrupt == InitCorrupt /\ [][NextCorrupt]_vars

(* A read of IdentityMapKey::deserialize at off runs past the end of the   *)
(* file, or the string it reads is not UTF-8.                              *)
KeyBroken(file, off) ==
  \/ ~CanRead(file, PosOf(off), 4)
  \/ /\ IsMSBSet(ReadU32(file, PosOf(off)).val)
     /\ \/ ~CanRead(file, PosOf(off) + 4, Low31(ReadU32(file, PosOf(off)).val))
        \/ ~IsUtf8(BytesAt(file, PosOf(off) + 4, Low31(ReadU32(file, PosOf(off)).val)))

(* Where the key at off ends. *)
KeyEnd(file, off) ==
  PosOf(off) + 4 + (IF IsMSBSet(ReadU32(file, PosOf(off)).val)
                    THEN Low31(ReadU32(file, PosOf(off)).val) ELSE 0)

(* Slot i of the chunk at chunk cannot be read, or the key it leads to is    *)
(* broken, or the item offset after the key cannot be read.                *)
SlotBroken(file, chunk, i) ==
  \/ ~CanRead(file, PosAdd(PosOf(chunk), 4 * i), 4)
  \/ /\ ReadU32(file, PosOf(chunk) + 4 * i).val # U32MAX
     /\ \/ KeyBroken(file, ReadU32(file, PosOf(chunk) + 4 * i).val)
        \/ ~CanRead(file, KeyEnd(file, ReadU32(file, PosOf(chunk) + 4 * i).val), 4)

(* Some read of the map's own deserialize, in the chunks from chunk on, runs *)
(* past the end of the file or meets a broken key; visited holds the       *)
(* chunks looked at, which a chain of links that comes back to one of      *)
(* them reads again and nothing else.                                      *)
RECURSIVE MapBroken(_, _, _)
MapBroken(file, chunk, visited) ==
  IF chunk \in visited THEN FALSE
  ELSE \/ \E i \in 0 .. CHUNK_SIZE - 1 : SlotBroken(file, chunk, i)
       \/ ~CanRead(file, PosAdd(PosOf(chunk), 4 * CHUNK_SIZE), 4)
       \/ /\ ReadU32(file, PosOf(chunk) + 4 * CHUNK_SIZE).val # U32MAX
          /\ MapBroken(file, ReadU32(file, PosOf(chunk) + 4 * CHUNK_SIZE).val,
                       visited \cup {chunk})

(* C25: when a read of LazyItemMap::deserialize or of                      *)
(* IdentityMapKey::deserialize runs past the end of the file, or a string  *)
(* key is not UTF-8, deserialize returns an error; and an error comes with *)
(* no map and no key, never with the part built so far.                    *)
C25_DamagedFileFails ==
  \A i \in LoadIds :
    /\ (loads[i].kind = "map" /\ loads[i].off # U32MAX
          /\ MapBroken(w.buf, loads[i].off, {})) => ~loads[i].ok
    /\ (loads[i].kind = "key" /\ KeyBroken(w.buf, loads[i].off)) => ~loads[i].ok
    /\ ~loads[i].ok =>
         /\ loads[i].items = << >>
         /\ loads[i].key = KeyInt(0)
         /\ loads[i].err \in {"UnexpectedEof", "InvalidData", "Diverges"}

(* Three entries of a damaged map could be read and the fourth has a key   *)
(* that is not UTF-8; and a file cut short inside a later entry.           *)
C25_Witness ==
  \E i \in LoadIds :
    /\ phase = "damaged"
    /\ loads[i].kind = "map"
    /\ Len(map) >= 4
    /\ ~loads[i].ok
    /\ loads[i].err = "InvalidData"
    /\ ~SlotBroken(w.buf, root.off, 0)
    /\ ~SlotBroken(w.buf, root.off, 2)
    /\ SlotBroken(w.buf, root.off, 3)

(***************************************************************************)
(* A writer far into a file.  w.buf is the part of the file from stream    *)
(* position base on, base a u32 in two's complement: -n is 2^32 - n.  The  *)
(* serializers compute with the positions in w.buf; no branch of them      *)
(* depends on the value of a position, so the offset that                  *)
(* 'writer.stream_position()? as u32' gives for the position p of w.buf is *)
(* base + p, and so is every offset returned or stored.                    *)
(***************************************************************************)
EdgeBases == {0, 0 - 1, 0 - EdgeGap, 0 - (4 * (CHUNK_SIZE + 1)) - 1}

InitEdge ==
  /\ nodes = << >>
  /\ cells = << >>
  /\ map = << >>
  /\ key \in CorruptKeys
  /\ w \in {WriterAt(n) : n \in 0 .. MaxPad}
  /\ phase = "build"
  /\ root = NoRoot
  /\ budget = 0
  /\ reg = << >>
  /\ loads = << >>
  /\ added = << >>
  /\ CellsIdle
  /\ SharedIdle
  /\ StoreIdle
  /\ ret = << >>
  /\ props = << >>
  /\ env = << >>
  /\ callers = << >>
  /\ base \in EdgeBases

NextEdge ==
  \/ Len(map) < MaxEdgeEntries /\ InsertData(MapKeyAt(Len(map) + 1), Len(map) + 1, 2)
  \/ Len(map) = 1 /\ InsertInvalid(MapKeyAt(Len(map) + 1))
  \/ \E b \in 0 .. 1 : map # << >> /\ SerializeMap(b)
  \/ map = << >> /\ SerializeKey
  \/ \E o \in {root.off, U32MAX} : loads = << >> /\ LoadMap(o)

SpecEdge == InitEdge /\ [][NextEdge]_vars

(* writer.stream_position()? as u32, p being the position in w.buf; the    *)
(* sentinel is stored as it is.                                            *)
StreamOffset(p) == IF p = U32MAX THEN U32MAX ELSE base + p

(* The offsets that the serialize call returned and stored for what it     *)
(* wrote, as positions in w.buf: the start of the record, and for a map    *)
(* the slots of its entries, their item offsets and its chunk links.       *)
OffsetsOfRecords ==
  ((IF w.pos > root.pos THEN {root.off} ELSE {})
     \cup (IF root.kind # "map" THEN {}
           ELSE {ReadU32(w.buf, ChunkChain(w.buf, root.off, Len(map) + 1)[j] + 4 * i).val :
                   j \in 1 .. Len(ChunkChain(w.buf, root.off, Len(map) + 1)),
                   i \in 0 .. CHUNK_SIZE}
                \cup {OffsetOf(map[k].item) :
                        k \in {k \in 1 .. Len(map) : map[k].item.valid}}))
    \ {U32MAX}

(* Below 2^31 no record has the sentinel for its offset. *)
SentinelFreeAtStart ==
  (phase = "written" /\ root.ok /\ base = 0) =>
    \A p \in OffsetsOfRecords : StreamOffset(p) # U32MAX

(* C26: u32::MAX is never the offset of a record: no serialize call        *)
(* returns it for a record it wrote and no slot, item offset or chunk link *)
(* holds it for a record that exists, wherever in the 32-bit range the     *)
(* writer stands.                                                          *)
C26_SentinelNeverLegal ==
  (phase = "written" /\ root.ok) =>
    \A p \in OffsetsOfRecords : StreamOffset(p) # U32MAX

(* The chunks of the map written and, for entry k, its chunk and its slot. *)
ChunksWritten == ChunkChain(w.buf, root.off, Len(map) + 1)

SlotValue(j, i) == ReadU32(w.buf, ChunksWritten[j] + 4 * i).val

ChunkOfEntry(k) == ((k - 1) \div CHUNK_SIZE) + 1

SlotOfEntry(k) == (k - 1) % CHUNK_SIZE

(* The item-offset field that follows the key at offset v. *)
ItemField(v) == ReadU32(w.buf, KeyDeserialize(w.buf, v).pos).val

(* The record of entry k's node was written at offset io, below the        *)
(* writer's final position.                                                *)
NodeWrittenAt(k, io) ==
  /\ io >= root.pos
  /\ io + NodeRecordFields.size <= w.pos
  /\ map[k].item.valid
  /\ ReadU16(w.buf, io).val = nodes[map[k].item.data].version_id

(* The key of entry k was written at offset v, and the item offset after   *)
(* it is the sentinel for an Invalid item and else the place of the node.  *)
EntryWrittenAt(k, v) ==
  /\ v >= root.pos
  /\ v < w.pos
  /\ KeyDeserialize(w.buf, v).ok
  /\ KeyDeserialize(w.buf, v).key = map[k].key
  /\ KeyDeserialize(w.buf, v).pos + 4 <= w.pos
  /\ IF map[k].item.valid
     THEN NodeWrittenAt(k, ItemField(v))
     ELSE ItemField(v) = U32MAX

envRest == <<graphVars, cellVars, sharedVars, storeVars, ret, props, base>>

NoValue == [ok |-> FALSE, handle |-> 0, err |-> ""]

InitEnv ==
  /\ GraphIdle
  /\ CellsIdle
  /\ SharedIdle
  /\ StoreIdle
  /\ ret = << >>
  /\ props = << >>
  /\ base = 0
  /\ env = [state |-> "uninit", value |-> NoValue, runs |-> 0]
  /\ callers = << >>

(* A thread calls get_app_env(). *)
GetAppEnvCall ==
  /\ Len(callers) < MaxEnvCalls
  /\ callers' = Append(callers, [pc |-> "called", result |-> NoValue])
  /\ UNCHANGED <<env, envRest>>

(* A lock that would let a second thread in while the first is at work. *)
CanRunInitUnlocked(e) == e.state # "set"

(* OnceLock::get_or_init: the closure is run by the one thread that finds  *)
(* the lock neither set nor being set.                                     *)
CanRunInit(e) == e.state = "uninit"

(* The call enters the initialization body (lines 443-444). *)
EnvInitBegin(i) ==
  /\ callers[i].pc = "called"
  /\ CanRunInit(env)
  /\ env' = [env EXCEPT !.state = "running", !.runs = @ + 1]
  /\ callers' = [callers EXCEPT ![i].pc = "init"]
  /\ UNCHANGED envRest

(* Lines 447-459: create_dir_all or Environment::open fails and the Err is *)
(* the value, or the AppEnv is made; the lock is set.                      *)
EnvInitBody(i, outcome) ==
  /\ callers[i].pc = "init"
  /\ env' = [env EXCEPT
       !.state = "set",
       !.value = IF outcome = "ok"
                 THEN [ok |-> TRUE, handle |-> env.runs, err |-> ""]
                 ELSE [ok |-> FALSE, handle |-> 0, err |-> outcome]]
  /\ callers' = [callers EXCEPT ![i].pc = "got"]
  /\ UNCHANGED envRest

(* Lines 442-461: get_or_init returns the value of the set lock, to the    *)
(* thread that set it and to those that waited or came later; clone().     *)
GetAppEnvReturn(i) ==
  /\ callers[i].pc \in {"called", "got"}
  /\ env.state = "set"
  /\ callers' = [callers EXCEPT ![i] = [pc |-> "returned", result |-> env.value]]
  /\ UNCHANGED <<env, envRest>>

NextEnv ==
  \/ GetAppEnvCall
  \/ \E i \in 1 .. Len(callers) : EnvInitBegin(i)
  \/ \E i \in 1 .. Len(callers), outcome \in {"ok", "create_dir_all", "open"} :
       EnvInitBody(i, outcome)
  \/ \E i \in 1 .. Len(callers) : GetAppEnvReturn(i)

SpecEnv == InitEnv /\ [][NextEnv]_vars

(* C29: however many calls of get_app_env run, and however they overlap,   *)
(* the initialization body is entered at most once and every call returns  *)
(* the same result: the same handle or the same error.                     *)
C29_InitOnce ==
  /\ env.runs <= 1
  /\ \A i \in 1 .. Len(callers) : \A j \in 1 .. Len(callers) :
       (callers[i].pc = "returned" /\ callers[j].pc = "returned") =>
         callers[i].result = callers[j].result
  /\ \A i \in 1 .. Len(callers) :
       callers[i].pc = "returned" =>
         /\ env.state = "set"
         /\ callers[i].result = env.value

(* Every call has returned, all with the one cached error of a body that   *)
(* ran once and failed to open the environment.                            *)
C29_Witness ==
  /\ Len(callers) = MaxEnvCalls
  /\ \A i \in 1 .. Len(callers) : callers[i].pc = "returned"
  /\ ~callers[1].result.ok
  /\ callers[1].result.err = "open"
  /\ env.runs = 1

(***************************************************************************)
(* The skip set, seen in what a load leaves on the heap.                   *)
(***************************************************************************)
(* The nodes that node n holds with their data. *)
DataLinks(n) == {lz.data : lz \in {l \in LinksOf(nodes[n]) : HasData(l)}}

RECURSIVE BelowFrom(_, _)
BelowFrom(seen, fuel) ==
  IF fuel = 0 THEN seen
  ELSE BelowFrom(seen \cup UNION {DataLinks(n) : n \in seen}, fuel - 1)

(* Node n and the nodes materialized on its behalf or found registered:    *)
(* all that its links reach through cells that have their data.            *)
Below(n) == BelowFrom({n}, Len(nodes))

(* A Valid cell with the offset o and no data. *)
IsOffsetOnly(lz, o) == lz.valid /\ lz.data = 0 /\ cells[lz.cell] = Some(o)

(* The record at offset p names offset o as its parent or child. *)
LinkFields == {NodeRecordFields.parent, NodeRecordFields.child}

LinkInMemory(n, at) ==
  IF at = NodeRecordFields.parent THEN nodes[n].parent ELSE nodes[n].child

(* C30: for a record at offset O materialized through a lazy cell, every   *)
(* link at or below it that leads back to O is a Valid cell with O and no  *)
(* data, never a second materialization of O (so O was in the skip set     *)
(* before its outlinks were followed); the parent and child fields of the  *)
(* file that name O are such cells; and a load of O through the registry   *)
(* afterwards gives the node, even with no budget.                         *)
C30_SkipSetProtocol ==
  phase = "written" =>
    \A o \in DOMAIN reg :
      /\ HasData(reg[o])
      /\ \A m \in Below(reg[o].data) : \A lz \in LinksOf(nodes[m]) :
           (HasOffset(lz) /\ OffsetOf(lz) = o) => IsOffsetOnly(lz, o)
      /\ \A p \in DOMAIN reg : \A at \in LinkFields :
           (/\ reg[p].data \in Below(reg[o].data)
            /\ FieldU32(w.buf, p, at) = o)
             => IsOffsetOnly(LinkInMemory(reg[p].data, at), o)
      /\ DesLazy(w.buf, NewDs, o, 0).ds.ok
      /\ DesLazy(w.buf, NewDs, o, 0).item = reg[o]

(* C30's case: A.parent = B and B.child = A were serialized from A; a load *)
(* of A through a lazy cell gave A with B, whose child is a cell with A's  *)
(* offset and no data though the budget would have paid for a third node;  *)
(* a second load, at that cell's offset, gave A.                           *)
C30_Witness ==
  /\ Len(loads) = 2
  /\ budget = MaxBudget
  /\ \E b \in 1 .. root.heap : BuiltCycle(root.n, b)
  /\ LazyLoadWithData(1)
  /\ loads[1].off = root.off
  /\ HasData(nodes[loads[1].item.data].parent)
  /\ IsOffsetOnly(nodes[nodes[loads[1].item.data].parent.data].child, root.off)
  /\ LazyLoadWithData(2)
  /\ loads[2].off = OffsetOf(nodes[nodes[loads[1].item.data].parent.data].child)
  /\ loads[2].item = loads[1].item

(* init_vector_store has returned Ok and no call was made since. *)
AfterInit == ret.op = "init" /\ ret.result = "Ok"

(* The loop of lines 78-113 has ended and no node was persisted yet. *)
LevelsBuilt == up.pc = "init_persist" /\ up.left = Len(nodes)

(* One node per level 0 .. L, level 0 first and the store's root; each     *)
(* node's parent is the node of the level below, whose child it is; the    *)
(* first has no parent and the last no child.                              *)
LevelChain(L) ==
  /\ Len(nodes) = L + 1
  /\ root.kind = "store"
  /\ root.n = 1
  /\ \A n \in 1 .. Len(nodes) : nodes[n].hnsw_level = n - 1
  /\ \A n \in 2 .. Len(nodes) :
       /\ HasData(nodes[n].parent) /\ nodes[n].parent.data = n - 1
       /\ HasData(nodes[n - 1].child) /\ nodes[n - 1].child.data = n
  /\ nodes[1].parent = Invalid
  /\ nodes[Len(nodes)].child = Invalid

DirtyNodes == {n \in 1 .. Len(nodes) : nodes[n].persist_flag}

SlotOfKey(k) == SlotValue(ChunkOfEntry(k), SlotOfEntry(k))

(* C32: when LazyItemMap::serialize has returned Ok, the key of entry k    *)
(* (counted from 1) is at the offset held in slot (k - 1) mod 5 of chunk   *)
(* (k - 1) div 5, and every Valid value of the map reports as get_offset() *)
(* the item offset that the file holds after that key.                     *)
C32_OffsetsRecorded ==
  (phase = "written" /\ root.kind = "map" /\ root.ok /\ map # << >>) =>
    \A k \in 1 .. Len(map) :
      /\ KeyDeserialize(w.buf, SlotOfKey(k)).ok
      /\ KeyDeserialize(w.buf, SlotOfKey(k)).key = map[k].key
      /\ map[k].item.valid =>
           GetOffset(cells, map[k].item) = Some(ItemField(SlotOfKey(k)))

(* C32's case: a map of two chunks was serialized; the value of its sixth  *)
(* entry, in slot 0 of the second chunk, has taken an offset.              *)
C32_Witness ==
  /\ phase = "written"
  /\ root.kind = "map"
  /\ root.ok
  /\ Len(map) > CHUNK_SIZE
  /\ map[CHUNK_SIZE + 1].item.valid
  /\ GetOffset(cells, map[CHUNK_SIZE + 1].item) # None
  /\ SlotOfKey(CHUNK_SIZE + 1) = SlotValue(2, 0)

(* C33: add_version inserts every version under the key Int(0): however    *)
(* many versions a node was given, its versions map holds at most one      *)
(* entry, under that key, and so does the node that is loaded from it.     *)
C33_VersionsCollide ==
  \A n \in NodeIds :
    /\ Len(nodes[n].versions) <= 1
    /\ \A j \in 1 .. Len(nodes[n].versions) : nodes[n].versions[j].key = KeyInt(0)
    /\ (n = 1 /\ loads = << >> /\ VersionsAdded > 0) => Len(nodes[n].versions) = 1

(* C33's case: two versions of different identity were added to node 1,    *)
(* whose map holds one entry when it is serialized.                        *)
C33_Witness ==
  /\ phase = "written"
  /\ loads = << >>
  /\ VersionsAdded = 2
  /\ Len(nodes[1].versions) = 1

(* The identity under which thread t inserts its item. *)
InsertedId(t) == LazyGetId(nodes, cells, threads[t].item)

(* C34: once two insert calls of items with distinct identities on one     *)
(* set have both returned, the set holds both items, however the two calls *)
(* interleaved.                                                            *)
C34_NoLostUpdate ==
  \A t \in 1 .. Len(threads) : \A u \in 1 .. Len(threads) :
    (/\ threads[t].op = "inserted"
     /\ threads[u].op = "inserted"
     /\ InsertedId(t) # InsertedId(u))
      => /\ HasId(arc.items[ArcCurrent(arc.items)], InsertedId(t))
         /\ HasId(arc.items[ArcCurrent(arc.items)], InsertedId(u))

(* Inserts that do not overlap lose nothing: when every insert that has    *)
(* returned had read the set that the one before it stored, the set holds  *)
(* the items of all of them.                                               *)
SerialInsertsKept ==
  (\A t \in 1 .. Len(threads) : \A u \in 1 .. Len(threads) :
     (threads[t].op = "inserted" /\ threads[u].op = "inserted" /\ t # u)
       => threads[t].at # threads[u].at)
    => \A t \in 1 .. Len(threads) :
         threads[t].op = "inserted"
           => HasId(arc.items[ArcCurrent(arc.items)], InsertedId(t))

(* The place of the link of the map's first chunk. *)
FirstLinkAt == PosOf(root.off) + 4 * CHUNK_SIZE

(* C35: LazyItemMap::deserialize returns, a map or an error, whatever the  *)
(* file holds, also when the link of a chunk leads to a chunk already      *)
(* read.                                                                   *)
C35_DeserializeTerminates ==
  \A i \in LoadIds : loads[i].kind = "map" => loads[i].err # "Diverges"

(* On a file whose chunk links all lead forward, deserialize returns. *)
RECURSIVE LinksForward(_, _, _)
LinksForward(file, chunk, fuel) ==
  \/ fuel = 0
  \/ ~CanRead(file, PosAdd(PosOf(chunk), 4 * CHUNK_SIZE), 4)
  \/ ReadU32(file, PosOf(chunk) + 4 * CHUNK_SIZE).val = U32MAX
  \/ /\ ReadU32(file, PosOf(chunk) + 4 * CHUNK_SIZE).val > chunk
     /\ LinksForward(file, ReadU32(file, PosOf(chunk) + 4 * CHUNK_SIZE).val, fuel - 1)

TerminatesOnForwardLinks ==
  \A i \in LoadIds :
    (loads[i].kind = "map" /\ loads[i].off # U32MAX
       /\ LinksForward(w.buf, loads[i].off, Len(w.buf) + 1))
      => loads[i].err # "Diverges"

(* Two values of a node's prop cell are the same property, resident or     *)
(* referenced: they have the same location (get_prop_location).            *)
SameProperty(p, q) == p.loc # None /\ p.loc = q.loc

(* C36: whichever of set_prop_ready, set_prop_pending and                  *)
(* set_prop_location put them there, two states of a node's prop that are  *)
(* the same property, Ready or Pending, give the node the same get_id().   *)
C36_IdentityByVectorId ==
  \A i \in 1 .. Len(arc.prop) : \A j \in 1 .. Len(arc.prop) :
    SameProperty(arc.prop[i], arc.prop[j])
      => HashProp(arc.prop[i]) = HashProp(arc.prop[j])

(* While the property is resident the identity is that of its VectorId,    *)
(* whatever its location.                                                  *)
ReadyIdentityByVectorId ==
  \A i \in 1 .. Len(arc.prop) : \A j \in 1 .. Len(arc.prop) :
    (/\ arc.prop[i].tag = "Ready"
     /\ arc.prop[j].tag = "Ready"
     /\ arc.prop[i].vid = arc.prop[j].vid)
      => HashProp(arc.prop[i]) = HashProp(arc.prop[j])

====
